---- MODULE Spec2Model ----
(***************************************************************************)
(* Verification model of autoJP/newBot:                                    *)
(*   process_nmap_ips_for_pt.py  - target artifact writer / strict parser, *)
(*                                 nmap processing of one product type     *)
(*   acunetix_sync_pt.py         - scanner sync run and reconciliation     *)
(*   marked-block upsert         - described in spec.md section 4.4        *)
(*                                                                         *)
(* Text is modelled as a sequence of tokens.  A token is either a single   *)
(* character class the regular expressions of the code distinguish         *)
(* (" ", "\n", "\r", ",", an ordinary character) or a literal the code     *)
(* matches as a whole (a marker, a URL scheme prefix).                     *)
(***************************************************************************)
EXTENDS Integers, Sequences, FiniteSets, TLC

VARIABLES
    \* ---- target artifact (process_nmap_ips_for_pt.py) ----
    lines,      \* the list of lines handed to write/render
    artifact,   \* content of pt_targets_<id>.txt, or NoFile
    call,       \* the last call made and its outcome
    \* ---- marked block in a description field (spec.md 4.4) ----
    desc,       \* the text blob holding the block
    newBody,    \* the body the writer upserts
    upserts,    \* the blobs before each upsert made so far, oldest first
    \* ---- scanner sync run (acunetix_sync_pt.py main) ----
    pc,               \* position of the run
    dry_run,          \* --dry-run of the current run
    prepared_targets, \* build_targets_from_products(products)
    remoteGroups,     \* target groups the scanner holds
    remoteTargets,    \* targets the scanner holds
    groups,           \* acu_list_groups result
    group_id,
    add_result,       \* acu_targets_add result
    all_targets,      \* acu_list_targets result
    mapping,          \* resolve_target_mapping result
    mappingFile,      \* content of the mapping file
    trace,            \* steps the current run has executed, in order
    failedAt,         \* the step whose failure ended the run, or None
    exit_code,        \* exit code of the run once it has ended, or NoExit
    runs,             \* runs started so far
    created,          \* the groups created so far, all runs
    atStart,          \* the mapping file when the current run started
    outcomes,         \* how the earlier runs ended, oldest first
    \* ---- nmap processing of one product type (process_nmap_ips_for_pt.py) ----
    npc,        \* position of process_single_product_type
    DRY_RUN,    \* --dry-run
    dojo,       \* what DefectDojo holds: the product type and its products
    dojo0,      \* what it held when the run started
    xmls,       \* nmap_<product id>.xml, per product id
    reqs,       \* the HTTP requests sent so far, in order
    loc,        \* locals of process_single_product_type
    summary,    \* the summary the run prints
    nmExit,     \* exit code of the run, or NoExit
    \* ---- target preparation of a sync run (acunetix_sync_pt.py main) ----
    tpc,            \* position of the preparation
    dojo_products,  \* the products DefectDojo returned
    built_targets,  \* build_targets_from_products(products)
    tExit,          \* exit code once the run has ended here, or NoExit
    \* ---- scan speed of a target group (acunetix_set_group_scan_speed.py) ----
    spc,            \* position of main
    ss_dry_run,     \* --dry-run
    scan_speed,     \* --scan-speed
    by_name,        \* the group is given by --group-name, not by --group-id
    group_exists,   \* the scanner lists a group of that name
    configs,        \* what the scanner holds: target id -> its scan_speed
    configs0,       \* what it held when the run started
    target_ids,     \* acu_get_group_targets result
    todo,           \* the target ids the loop has yet to take
    changed,
    skipped,
    errors,
    patches,        \* the target ids a PATCH was sent for, in order
    result_ok,      \* "ok" of the printed result; FALSE while none is printed
    ssExit,         \* exit code of the run, or NoExit
    \* ---- resolvability checks (enum_subs_auto.py main, resolve_host) ----
    epc,              \* position of main
    cleaned,          \* the candidate hostnames
    dns,              \* what getaddrinfo answers: host -> addresses or failure
    default_timeout,  \* socket.getdefaulttimeout() of the process
    workers,          \* per host: position of its check, its old and its answer
    resolved_map

artVars == <<lines, artifact, call>>
upVars == <<desc, newBody, upserts>>
remoteVars == <<remoteGroups, remoteTargets>>
ctlVars == <<pc, trace, failedAt, exit_code>>
inVars == <<dry_run, prepared_targets>>
resVars == <<groups, group_id, add_result, all_targets, mapping>>
histVars == <<runs, created, atStart, outcomes>>
runVars == <<ctlVars, inVars, resVars, mappingFile, histVars>>
syncVars == <<remoteVars, runVars>>

nmVars == <<npc, DRY_RUN, dojo, dojo0, xmls, reqs, loc, summary, nmExit>>

tgVars == <<tpc, dojo_products, built_targets, tExit>>
ssVars == <<spc, ss_dry_run, scan_speed, by_name, group_exists, configs, configs0,
            target_ids, todo, changed, skipped, errors, patches, result_ok,
            ssExit>>
enVars == <<epc, cleaned, dns, default_timeout, workers, resolved_map>>

vars == <<lines, artifact, call, desc, newBody, upserts, remoteVars, runVars,
          nmVars, tgVars, ssVars, enVars>>

\* ------------------------------------------------------------------ bounds
MaxTail == 1
MaxLines == 2
MaxParts == 3
MaxUpserts == 2
MaxAnswers == 2
MaxProducts == 2
DojoPageLimit == 1
MaxInitGroups == 3
MaxRuns == 2
GroupPageLimit == 2

\* ------------------------------------------------------------------ text
SP == " "
NL == "\n"
CR == "\r"

\* str.isspace / regex \s: blank, newline, other line-breaking whitespace
Whitespace == {SP, NL, CR}
\* str.splitlines boundaries (all of them are whitespace)
LineBreaks == {NL, CR}

IsWs(c) == c \in Whitespace

Min(S) == CHOOSE x \in S : \A y \in S : x <= y
Max(S) == CHOOSE x \in S : \A y \in S : x >= y

RECURSIVE Concat(_)
Concat(ss) == IF ss = <<>> THEN <<>> ELSE Head(ss) \o Concat(Tail(ss))

\* sep.join(parts)
RECURSIVE Join(_, _)
Join(parts, sep) ==
    IF parts = <<>> THEN <<>>
    ELSE IF Len(parts) = 1 THEN parts[1]
    ELSE parts[1] \o sep \o Join(Tail(parts), sep)

\* str.strip()
Strip(s) ==
    LET keep == {i \in 1..Len(s) : ~IsWs(s[i])}
    IN  IF keep = {} THEN <<>> ELSE SubSeq(s, Min(keep), Max(keep))

\* str.splitlines(): split at line boundaries, "\r\n" is one boundary, no
\* empty last piece after a final boundary
RECURSIVE SplitLines(_)
SplitLines(s) ==
    IF s = <<>> THEN <<>>
    ELSE LET brk == {i \in 1..Len(s) : s[i] \in LineBreaks}
         IN  IF brk = {} THEN <<s>>
             ELSE LET i == Min(brk)
                      n == IF s[i] = CR /\ i < Len(s) /\ s[i+1] = NL THEN i + 1 ELSE i
                  IN  <<SubSeq(s, 1, i - 1)>> \o SplitLines(SubSeq(s, n + 1, Len(s)))

SelectNonEmpty(ss) == SelectSeq(ss, LAMBDA x : x # <<>>)

MapSeq(f(_), ss) == [i \in 1..Len(ss) |-> f(ss[i])]

Range(ss) == {ss[i] : i \in 1..Len(ss)}

\* all sequences over S of length 0..n
SeqsUpTo(S, n) == UNION {[1..k -> S] : k \in 0..n}

\* ------------------------------------------------- target artifact format
TARGET_ARTIFACT_BLOCK_START == "PT_TARGET_LIST_START"
TARGET_ARTIFACT_BLOCK_END == "PT_TARGET_LIST_END"
Schemes == {"http://", "https://"}

\* TARGET_LINE_RE = ^(https?://[^,\s]+),\s+(.+)$  applied with .match():
\* scheme, one or more characters that are neither comma nor whitespace, a
\* comma, one or more whitespace, one or more characters other than "\n";
\* "$" matches at the end or before a final "\n".
TARGET_LINE_RE_match(line) ==
    LET n == Len(line)
        LabelAt(p) ==
            \E e \in p..n :
                /\ \A x \in p..e : line[x] # NL
                /\ \/ e = n
                   \/ e = n - 1 /\ line[n] = NL
    IN  /\ n >= 1
        /\ line[1] \in Schemes
        /\ \E k \in 2..n :
              /\ \A x \in 2..k : ~IsWs(line[x]) /\ line[x] # ","
              /\ k + 1 <= n
              /\ line[k + 1] = ","
              /\ \E m \in (k + 2)..(n - 1) :
                    /\ \A x \in (k + 2)..m : IsWs(line[x])
                    /\ LabelAt(m + 1)

render_joined_by_blank(target_lines) ==
    <<TARGET_ARTIFACT_BLOCK_START, NL>> \o Join(target_lines, <<SP>>)
        \o <<NL, TARGET_ARTIFACT_BLOCK_END, NL>>

\* "\n".join(target_lines) between the markers, newline after the end marker
render_targets_artifact(target_lines) ==
    <<TARGET_ARTIFACT_BLOCK_START, NL>> \o Join(target_lines, <<NL>>)
        \o <<NL, TARGET_ARTIFACT_BLOCK_END, NL>>

\* pattern ^\s*START\n(.*?)\nEND\s*$ with DOTALL, applied with .match():
\* the set of positions j of the "\n" before an END that is followed by
\* whitespace only, after a START that follows leading whitespace only.
\* The non-greedy group takes the least such j.
ArtifactBodyEnds(content) ==
    LET n == Len(content)
        lead == {i \in 1..n : ~IsWs(content[i])}
        i0 == IF lead = {} THEN n + 1 ELSE Min(lead)
    IN  IF /\ i0 + 1 <= n
           /\ content[i0] = TARGET_ARTIFACT_BLOCK_START
           /\ content[i0 + 1] = NL
        THEN {j \in (i0 + 2)..(n - 1) :
                /\ content[j] = NL
                /\ content[j + 1] = TARGET_ARTIFACT_BLOCK_END
                /\ \A k \in (j + 2)..n : IsWs(content[k])}
        ELSE {}

ArtifactBodyStart(content) ==
    Min({i \in 1..Len(content) : ~IsWs(content[i])}) + 2

Raise == [ok |-> FALSE, lines |-> <<>>]

parse_without_line_check(content) ==
    LET ends == ArtifactBodyEnds(content)
    IN  IF ends = {} THEN Raise
        ELSE LET body == SubSeq(content, ArtifactBodyStart(content), Min(ends) - 1)
             IN  [ok |-> TRUE,
                  lines |-> SelectNonEmpty(MapSeq(Strip, SplitLines(body)))]

\* returns [ok |-> TRUE, lines |-> ...] or Raise (ValueError)
parse_targets_artifact(content) ==
    LET ends == ArtifactBodyEnds(content)
    IN  IF ends = {} THEN Raise
        ELSE LET body == SubSeq(content, ArtifactBodyStart(content), Min(ends) - 1)
                 lns == SelectNonEmpty(MapSeq(Strip, SplitLines(body)))
             IN  IF \E i \in 1..Len(lns) : ~TARGET_LINE_RE_match(lns[i])
                 THEN Raise
                 ELSE [ok |-> TRUE, lines |-> lns]

NoFile == <<"<no file>">>
OldFile == render_targets_artifact(<<>>)

\* ------------------------------------------------ inputs of the artifact
ValidLine == <<"https://", "a", ",", SP, "x">>
\* a host with a blank in it: not of the target-line shape
BadHostLine == <<"http://", "a", SP, "a", ",", SP, "x">>
TailChars == {"a", SP, NL, CR}
Tails == SeqsUpTo(TailChars, MaxTail)
\* a well-formed line with a label that goes on with arbitrary text, a line
\* with a malformed host, an empty line, a blank line and a line of other text
Lines == {ValidLine \o t : t \in Tails} \cup {BadHostLine, <<>>, <<SP>>, <<"a">>}
LineLists == SeqsUpTo(Lines, MaxLines)

\* contents handed to the parser: a rendered artifact, as rendered or damaged
Damages == {"none", "lead_ws", "lead_text", "no_start", "no_end", "start_sp",
            "trail_ws", "trail_text", "no_final_nl", "end_twice"}

Damage(d, c) ==
    LET n == Len(c)
    IN  CASE d = "none" -> c
          [] d = "lead_ws" -> <<SP, NL>> \o c
          [] d = "lead_text" -> <<"a", NL>> \o c
          [] d = "no_start" -> Tail(c)
          [] d = "no_end" -> SubSeq(c, 1, n - 2) \o <<NL>>
          [] d = "start_sp" -> <<c[1], SP>> \o SubSeq(c, 3, n)
          [] d = "trail_ws" -> c \o <<SP, NL, CR>>
          [] d = "trail_text" -> c \o <<"a">>
          [] d = "no_final_nl" -> SubSeq(c, 1, n - 1)
          [] d = "end_twice" -> c \o <<TARGET_ARTIFACT_BLOCK_END, NL>>

NoCall == [op |-> "none"]

\* Python's None, where a string, a text, a number or a response is expected
None == "<None>"
NoneText == <<"<None>">>
NoId == -1
NoExit == -1
NoResult == [status |-> 0, response |-> [_raw |-> <<>>]]

\* the mapping file when it does not exist, and when it holds no JSON
\* object with a dict of items
NoMappingFile == [kind |-> "absent"]
Unreadable == [kind |-> "unreadable"]

EmptyDict == [x \in {} |-> NoneText]

UpsertIdle == desc = <<>> /\ newBody = <<>> /\ upserts = <<>>

TargetsIdle ==
    tpc = "off" /\ dojo_products = <<>> /\ built_targets = <<>> /\ tExit = NoExit

SpeedIdle ==
    /\ spc = "off" /\ ss_dry_run = FALSE /\ scan_speed = "sequential"
    /\ by_name = FALSE /\ group_exists = FALSE
    /\ configs = <<>> /\ configs0 = <<>> /\ target_ids = <<>> /\ todo = <<>>
    /\ changed = <<>> /\ skipped = <<>> /\ errors = <<>> /\ patches = <<>>
    /\ result_ok = FALSE /\ ssExit = NoExit

EnumIdle ==
    /\ epc = "off" /\ cleaned = {} /\ dns = <<>>
    /\ default_timeout = "None" /\ workers = <<>> /\ resolved_map = <<>>

SyncIdle ==
    /\ pc = "off" /\ dry_run = FALSE /\ prepared_targets = <<>>
    /\ remoteGroups = <<>> /\ remoteTargets = <<>>
    /\ groups = <<>> /\ group_id = None /\ add_result = NoResult
    /\ all_targets = <<>> /\ mapping = EmptyDict /\ mappingFile = NoMappingFile
    /\ trace = <<>> /\ failedAt = None /\ exit_code = NoExit
    /\ runs = 0 /\ created = <<>> /\ atStart = NoMappingFile
    /\ outcomes = <<>>

NoDojo == [pt |-> [id |-> 0, name |-> <<>>, description |-> <<>>],
           products |-> <<>>]
NoLocals == [pt_name |-> <<>>, products |-> <<>>,
             existing_product_names |-> {}, domain_hosts |-> {},
             candidates |-> <<>>, queue |-> <<>>,
             created_products |-> <<>>, ip_lines_set |-> {}]
NoSummary == [updated_description |-> FALSE, created_ip_products |-> <<>>,
              targets_artifact_path |-> FALSE, error |-> FALSE]

NmapIdle ==
    /\ npc = "off" /\ DRY_RUN = FALSE
    /\ dojo = NoDojo /\ dojo0 = NoDojo
    /\ xmls = <<>> /\ reqs = <<>>
    /\ loc = NoLocals /\ summary = NoSummary /\ nmExit = NoExit

InitArtifact ==
    /\ lines \in LineLists
    /\ artifact = NoFile
    /\ call = NoCall
    /\ UpsertIdle
    /\ SyncIdle
    /\ NmapIdle
    /\ TargetsIdle /\ SpeedIdle /\ EnumIdle

\* an earlier run left an artifact file behind
EarlierRun ==
    /\ call.op = "none"
    /\ artifact = NoFile
    /\ artifact' = OldFile
    /\ UNCHANGED <<lines, call>>
    /\ UNCHANGED <<upVars, tgVars, ssVars, enVars, syncVars, nmVars>>

\* the lines process_single_product_type builds: "<proto>://<host>, <label>",
\* never empty
BuiltLine(line) == line # <<>> /\ line[1] \in Schemes

\* write_targets_artifact: render, strict self-check, then write
write_targets_artifact ==
    /\ call.op = "none"
    /\ \A i \in 1..Len(lines) : BuiltLine(lines[i])
    /\ LET content == render_targets_artifact(lines)
           check == parse_targets_artifact(content)
       IN  IF check.ok
           THEN /\ artifact' = content
                /\ call' = [op |-> "write", content |-> content, raised |-> FALSE,
                            written |-> TRUE, before |-> artifact]
           ELSE /\ artifact' = artifact
                /\ call' = [op |-> "write", content |-> content, raised |-> TRUE,
                            written |-> FALSE, before |-> artifact]
    /\ UNCHANGED lines
    /\ UNCHANGED <<upVars, tgVars, ssVars, enVars, syncVars, nmVars>>

\* parse_targets_artifact applied to a rendered artifact, damaged or not
ReadArtifact ==
    /\ call.op = "none"
    /\ \E d \in Damages :
          LET content == Damage(d, render_targets_artifact(lines))
              r == parse_targets_artifact(content)
          IN  call' = [op |-> "parse", content |-> content, damage |-> d,
                       ok |-> r.ok, lines |-> r.lines]
    /\ artifact = NoFile
    /\ UNCHANGED <<lines, artifact>>
    /\ UNCHANGED <<upVars, tgVars, ssVars, enVars, syncVars, nmVars>>

NextArtifact == EarlierRun \/ write_targets_artifact \/ ReadArtifact

SpecArtifact == InitArtifact /\ [][NextArtifact]_vars

\* ------------------------------------------------------------ C1, C4, C5

AllLines(ls, P(_)) == \A i \in 1..Len(ls) : P(ls[i])

\* a line without surrounding whitespace and without a line boundary
CleanLine(line) ==
    /\ Strip(line) = line
    /\ \A i \in 1..Len(line) : line[i] \notin LineBreaks

\* C1 (as claimed): the artifact file is written only when re-parsing the
\* rendered content recovers exactly the requested list of lines; when the
\* re-parse fails or recovers another list the file is left as it was.
C1_WriteOnlyOnExactRoundTrip ==
    call.op = "write" =>
        LET r == parse_targets_artifact(call.content)
        IN  IF r.ok /\ r.lines = lines
            THEN TRUE
            ELSE ~call.written /\ artifact = call.before

\* C4 (as claimed): for every list of lines of the target-line shape,
\* parsing the rendered artifact returns exactly that list.
C4_RoundTripAllShaped ==
    (call.op = "parse" /\ call.damage = "none"
        /\ AllLines(lines, TARGET_LINE_RE_match))
    => (call.ok /\ call.lines = lines)

\* C4 (amended): for every list of lines of the target-line shape that have
\* no leading or trailing whitespace and contain no line boundary, parsing
\* the rendered artifact returns exactly that list, in the same order.
C4_RoundTripCleanShaped ==
    (call.op = "parse" /\ call.damage = "none"
        /\ AllLines(lines, TARGET_LINE_RE_match)
        /\ AllLines(lines, CleanLine))
    => (call.ok /\ call.lines = lines)

C4_Witness ==
    /\ call.op = "parse" /\ call.damage = "none"
    /\ Len(lines) = 2 /\ lines[1] # lines[2]
    /\ AllLines(lines, TARGET_LINE_RE_match)
    /\ AllLines(lines, CleanLine)
    /\ call.ok /\ call.lines = lines

\* the texts between a start marker line and an end marker line, the start
\* marker preceded and the end marker followed by whitespace only
MarkedBodies(c) ==
    LET n == Len(c)
        AllWs(a, b) == \A k \in a..b : IsWs(c[k])
        starts == {p \in 3..(n + 1) :
                     /\ c[p - 2] = TARGET_ARTIFACT_BLOCK_START
                     /\ c[p - 1] = NL
                     /\ AllWs(1, p - 3)}
        ends == {q \in 2..(n - 2) :
                     /\ c[q + 1] = NL
                     /\ c[q + 2] = TARGET_ARTIFACT_BLOCK_END
                     /\ AllWs(q + 3, n)}
    IN  {SubSeq(c, pq[1], pq[2]) :
            pq \in {x \in starts \X ends : x[2] >= x[1] - 1}}

\* C5 (as claimed): the parser returns a list only when the markers are
\* well formed and every line between them is of the target-line shape.
C5_FailsOnAnyNonConformingLine ==
    (call.op = "parse" /\ call.ok) =>
        \E body \in MarkedBodies(call.content) :
            AllLines(SplitLines(body), TARGET_LINE_RE_match)

\* C5 (amended): the parser raises when the markers are missing or
\* malformed, or when a line between them is, with its surrounding
\* whitespace stripped, neither empty nor of the target-line shape; blank
\* lines are skipped, and every line it returns is of the shape.
C5_FailsOnNonBlankNonConformingLine ==
    call.op = "parse" =>
        LET bodies == MarkedBodies(call.content)
            Acceptable(line) ==
                Strip(line) = <<>> \/ TARGET_LINE_RE_match(Strip(line))
        IN  /\ call.ok <=>
                \E body \in bodies : AllLines(SplitLines(body), Acceptable)
            /\ call.ok =>
                /\ AllLines(call.lines, TARGET_LINE_RE_match)
                /\ \E body \in bodies :
                      call.lines = SelectNonEmpty(MapSeq(Strip, SplitLines(body)))

C5_Witness ==
    /\ call.op = "parse" /\ call.damage = "none" /\ ~call.ok
    /\ MarkedBodies(call.content) # {}
    /\ Len(lines) = 2
    /\ TARGET_LINE_RE_match(lines[1])
    /\ Strip(lines[2]) # <<>> /\ ~TARGET_LINE_RE_match(Strip(lines[2]))

\* ----------------------------------------------------- marked-block upsert
\* (spec.md 4.4; the code of the merger is not among the source files)
ACU_START == "PT_ACUNETIX_TARGETS_START"
ACU_END == "PT_ACUNETIX_TARGETS_END"
STATE_START == "PT_STATE_JSON_START"
STATE_END == "PT_STATE_JSON_END"

NoRegion == <<0, 0>>

\* the first region  S \n <anything> \n E  of the blob, non-greedy:
\* <<i, j>> with S at i and E at j, or NoRegion
FindRegion(blob, S, E) ==
    LET n == Len(blob)
        EndsFrom(i) == {j \in (i + 3)..n : blob[j] = E /\ blob[j - 1] = NL}
        startsAt == {i \in 1..(n - 3) :
                        /\ blob[i] = S
                        /\ blob[i + 1] = NL
                        /\ EndsFrom(i) # {}}
    IN  IF startsAt = {} THEN NoRegion
        ELSE <<Min(startsAt), Min(EndsFrom(Min(startsAt)))>>

Block(S, E, body) == <<S, NL>> \o body \o <<NL, E>>

\* replace the first region, or append the block after a blank-line separator
upsert(blob, S, E, body) ==
    LET r == FindRegion(blob, S, E)
    IN  IF r # NoRegion
        THEN SubSeq(blob, 1, r[1] - 1) \o Block(S, E, body)
                \o SubSeq(blob, r[2] + 1, Len(blob))
        ELSE IF blob = <<>> THEN Block(S, E, body)
        ELSE IF blob[Len(blob)] = NL THEN blob \o <<NL>> \o Block(S, E, body)
        ELSE blob \o <<NL, NL>> \o Block(S, E, body)

\* [ok |-> TRUE, body |-> ...], or FormatError
FormatError == [ok |-> FALSE, body |-> <<>>]

extract(blob, S, E) ==
    LET r == FindRegion(blob, S, E)
    IN  IF r = NoRegion THEN FormatError
        ELSE [ok |-> TRUE, body |-> SubSeq(blob, r[1] + 2, r[2] - 2)]

\* number of regions found by searching again after each region found
RECURSIVE CountRegions(_, _, _)
CountRegions(blob, S, E) ==
    LET r == FindRegion(blob, S, E)
    IN  IF r = NoRegion THEN 0
        ELSE 1 + CountRegions(SubSeq(blob, r[2] + 1, Len(blob)), S, E)

\* the pieces a description field is made of: free text, line ends, whole
\* blocks of either owner, and marker lines left without their partner
BlobParts ==
    { <<"t">>, <<NL>>,
      Block(ACU_START, ACU_END, <<"o">>),
      Block(STATE_START, STATE_END, <<"j">>),
      <<ACU_START, NL>>, <<NL, ACU_END>> }

Blobs == {Concat(ps) : ps \in SeqsUpTo(BlobParts, MaxParts)}

Bodies ==
    { <<>>, <<"x">>, <<"x", NL, "y">>, <<"o">>,
      <<"x", NL, ACU_END, NL, "y">>,
      <<STATE_START, NL, "z", NL, STATE_END>> }

ArtifactIdle == lines = <<>> /\ artifact = NoFile /\ call = NoCall

InitUpsert ==
    /\ desc \in Blobs
    /\ newBody \in Bodies
    /\ upserts = <<>>
    /\ ArtifactIdle
    /\ SyncIdle
    /\ NmapIdle
    /\ TargetsIdle /\ SpeedIdle /\ EnumIdle

\* the writer upserts its block into the description field
UpsertBlock ==
    /\ Len(upserts) < MaxUpserts
    /\ desc' = upsert(desc, ACU_START, ACU_END, newBody)
    /\ upserts' = Append(upserts, desc)
    /\ UNCHANGED newBody
    /\ UNCHANGED <<artVars, tgVars, ssVars, enVars, syncVars, nmVars>>

NextUpsert == UpsertBlock

SpecUpsert == InitUpsert /\ [][NextUpsert]_vars

\* ---------------------------------------------------------------- C2, C3

\* C2 (as claimed): upserting the same body a second time leaves the blob as
\* the first upsert left it, for every blob and body.
C2_UpsertIdempotent ==
    Len(upserts) = 2 => desc = upserts[2]

\* text before and after the first (S,E) region; the whole blob if none
Outside(blob, S, E) ==
    LET r == FindRegion(blob, S, E)
    IN  IF r = NoRegion THEN <<blob, <<>>>>
        ELSE <<SubSeq(blob, 1, r[1] - 1), SubSeq(blob, r[2] + 1, Len(blob))>>

IsPrefix(a, b) == Len(a) <= Len(b) /\ SubSeq(b, 1, Len(a)) = a

\* C3 (as claimed): for every blob holding a block of the other marker pair,
\* an upsert of the writer's pair leaves the other pair's extracted body and
\* the text outside the writer's block as they were (a newly appended block
\* follows the old text and a separator), and the result holds exactly one
\* block of the writer's pair.
C3_UpsertFrame ==
    (Len(upserts) >= 1 /\ extract(upserts[Len(upserts)], STATE_START, STATE_END).ok)
    => LET before == upserts[Len(upserts)]
           found == FindRegion(before, ACU_START, ACU_END) # NoRegion
       IN  /\ extract(desc, STATE_START, STATE_END)
                = extract(before, STATE_START, STATE_END)
           /\ IF found
              THEN Outside(desc, ACU_START, ACU_END)
                     = Outside(before, ACU_START, ACU_END)
              ELSE /\ IsPrefix(before, Outside(desc, ACU_START, ACU_END)[1])
                   /\ Outside(desc, ACU_START, ACU_END)[2] = <<>>
           /\ CountRegions(desc, ACU_START, ACU_END) = 1

\* ------------------------------------------------ scanner sync: reconcile
\* (acunetix_sync_pt.py)
PT_ID == 5
PT_NAME == "pt"
ACU_BASE_URL == <<"https://acu", "/">>

\* str.lower() on tokens: "U", "V" are the texts "u", "v" in upper case
Lower(s) == [i \in 1..Len(s) |->
                CASE s[i] = "U" -> "u" [] s[i] = "V" -> "v"
                  [] s[i] = "H" -> "h" [] s[i] = "G" -> "g"
                  [] s[i] = "F" -> "f"
                  [] s[i] = "WWW." -> "www."
                  [] s[i] = "WWW" -> "www"
                  [] s[i] = "HTTP://" -> "http://"
                  [] s[i] = "HTTPS://" -> "https://"
                  [] s[i] = "TRUE" -> "true" [] s[i] = "Yes" -> "yes"
                  [] s[i] = "FALSE" -> "false"
                  [] OTHER -> s[i]]

\* rstrip("/") and re.sub(r"/+$", "", ...) on text that ends in no newline
RStripSlash(s) ==
    LET keep == {i \in 1..Len(s) : s[i] # "/"}
    IN  IF keep = {} THEN <<>> ELSE SubSeq(s, 1, Max(keep))

\* str(value or "")
StrOrEmpty(value) == IF value = NoneText THEN <<>> ELSE value

normalize_target_address(value) == RStripSlash(Lower(Strip(StrOrEmpty(value))))

\* an entry of a list that is no dict, and what tells a dict from it
NotADict == [not_a_dict |-> TRUE]
IsDict(t) == "target_id" \in DOMAIN t
RespFields == <<"address", "addressValue", "target">>
ListFields == <<"address", "target">>

\* url_to_target[norm] = target_id for every field of fields, in order
RECURSIVE PutFields(_, _, _, _)
PutFields(table, t, tid, fields) ==
    IF fields = <<>> THEN table
    ELSE LET norm == normalize_target_address(t[Head(fields)])
             next == IF norm # <<>> THEN (norm :> tid) @@ table ELSE table
         IN  PutFields(next, t, tid, Tail(fields))

\* one loop over the entries of a response or of a listing
RECURSIVE PutEntries(_, _, _)
PutEntries(table, entries, fields) ==
    IF entries = <<>> THEN table
    ELSE LET t == Head(entries)
             tid == IF IsDict(t) THEN Strip(StrOrEmpty(t.target_id)) ELSE <<>>
             next == IF ~IsDict(t) \/ tid = <<>> THEN table
                     ELSE PutFields(table, t, tid, fields)
         IN  PutEntries(next, Tail(entries), fields)

ResponseTargets(result) ==
    IF "targets" \in DOMAIN result.response THEN result.response.targets
    ELSE <<>>

RECURSIVE MapRows(_, _, _)
MapRows(m, rows, table) ==
    IF rows = <<>> THEN m
    ELSE LET row == Head(rows)
             norm == normalize_target_address(row.url)
             next == IF row.product_id = NoId \/ norm = <<>> THEN m
                     ELSE IF norm \in DOMAIN table
                          THEN (ToString(row.product_id) :> table[norm]) @@ m
                          ELSE m
         IN  MapRows(next, Tail(rows), table)

\* resolve_target_mapping, had it looked at the response only
resolve_from_response_only(submitted_targets, result, listing) ==
    MapRows(EmptyDict, submitted_targets,
            PutEntries(EmptyDict, ResponseTargets(result), RespFields))

resolve_target_mapping(submitted_targets, result, listing) ==
    LET fromResponse == PutEntries(EmptyDict, ResponseTargets(result), RespFields)
        url_to_target == PutEntries(fromResponse, listing, ListFields)
    IN  MapRows(EmptyDict, submitted_targets, url_to_target)

\* save_product_target_mapping, had it written the run's items alone
save_only_new_items(m, pt_id, acu_base_url, file, now) ==
    [kind |-> "file", version |-> 1, updated_at |-> now,
     items |-> [k \in DOMAIN m |->
                  [target_id |-> m[k], product_type_id |-> pt_id,
                   acu_base_url |-> RStripSlash(acu_base_url)]]]

\* the mapping file is rewritten whole: the old items, the run's on top

save_product_target_mapping(m, pt_id, acu_base_url, file, now) ==
    LET old_items == IF file.kind = "file" THEN file.items ELSE EmptyDict
        new_items == [k \in DOMAIN m |->
                        [target_id |-> m[k],
                         product_type_id |-> pt_id,
                         acu_base_url |-> RStripSlash(acu_base_url)]]
    IN  [kind |-> "file", version |-> 1, updated_at |-> now,
         items |-> new_items @@ old_items]

\* ---- the end of a non-dry run: reconcile, persist, done ----
Reconcile ==
    /\ pc = "reconcile"
    /\ mapping' = resolve_target_mapping(prepared_targets, add_result, all_targets)
    /\ trace' = Append(trace, "reconcile")
    /\ pc' = "persist"
    /\ UNCHANGED <<groups, group_id, add_result, all_targets>>
    /\ UNCHANGED <<failedAt, exit_code, inVars, mappingFile, histVars>>
    /\ UNCHANGED <<remoteVars, artVars, tgVars, ssVars, enVars, upVars, nmVars>>

\* save_product_target_mapping, then the result is printed and main returns
PersistMapping ==
    /\ pc = "persist"
    /\ mappingFile' = save_product_target_mapping(mapping, PT_ID, ACU_BASE_URL,
                                                  mappingFile, runs)
    /\ trace' = Append(trace, "persist")
    /\ pc' = "done"
    /\ exit_code' = 0
    /\ UNCHANGED <<failedAt, inVars, resVars, histVars>>
    /\ UNCHANGED <<remoteVars, artVars, tgVars, ssVars, enVars, upVars, nmVars>>

\* the file cannot be written: the exception ends the run
PersistFails ==
    /\ pc = "persist"
    /\ trace' = Append(trace, "persist")
    /\ pc' = "failed"
    /\ failedAt' = "persist"
    /\ exit_code' = 1
    /\ UNCHANGED <<inVars, resVars, mappingFile, histVars>>
    /\ UNCHANGED <<remoteVars, artVars, tgVars, ssVars, enVars, upVars, nmVars>>

\* ---- inputs of reconciliation ----
Item(pid, url) == [product_id |-> pid, url |-> url]
Submitted == <<Item(1, <<"u">>), Item(2, <<"v">>)>>

Entry(tid, field, addr) ==
    [target_id |-> tid,
     address |-> IF field = "address" THEN addr ELSE NoneText,
     addressValue |-> IF field = "addressValue" THEN addr ELSE NoneText,
     target |-> IF field = "target" THEN addr ELSE NoneText]

RemoteIds == {<<"t1">>, <<"t2">>, <<SP>>, NoneText}
RemoteAddrs == {<<SP, "U", "/">>, <<"v">>}
Entries ==
    {Entry(tid, f, a) : tid \in RemoteIds,
                        f \in {"address", "addressValue", "target"},
                        a \in RemoteAddrs} \cup {NotADict}

\* entries the scanner answered, each in the bulk-create response ("resp")
\* or in the full listing ("list"), MaxAnswers of them at most
Answers == SeqsUpTo({"resp", "list"} \X Entries, MaxAnswers)

From(answers, tag) ==
    LET picked == SelectSeq(answers, LAMBDA x : x[1] = tag)
    IN  [i \in 1..Len(picked) |-> picked[i][2]]

OldMappingFile ==
    [kind |-> "file", version |-> 1, updated_at |-> 0,
     items |-> ("1" :> [target_id |-> <<"t0">>, product_type_id |-> PT_ID,
                        acu_base_url |-> <<"https://acu">>])
            @@ ("7" :> [target_id |-> <<"t7">>, product_type_id |-> 9,
                        acu_base_url |-> <<"https://acu">>])]

InitReconcile ==
    /\ pc = "reconcile"
    /\ dry_run = FALSE
    /\ prepared_targets = Submitted
    /\ remoteGroups = <<>> /\ remoteTargets = <<>>
    /\ groups = <<>> /\ group_id = "g1"
    /\ \E answers \in Answers :
          /\ \/ add_result = [status |-> 200,
                              response |-> [targets |-> From(answers, "resp")]]
             \/ /\ From(answers, "resp") = <<>>
                /\ add_result = [status |-> 201, response |-> [_raw |-> <<>>]]
          /\ all_targets = From(answers, "list")
    /\ mapping = EmptyDict
    /\ mappingFile \in {NoMappingFile, OldMappingFile}
    /\ trace = <<"list_groups", "find_or_create", "submit", "list_all">>
    /\ failedAt = None /\ exit_code = NoExit
    /\ runs = 1 /\ created = <<>> /\ atStart = mappingFile
    /\ outcomes = <<>>
    /\ ArtifactIdle /\ UpsertIdle /\ NmapIdle /\ TargetsIdle /\ SpeedIdle /\ EnumIdle

NextReconcile == Reconcile \/ PersistMapping \/ PersistFails

SpecReconcile == InitReconcile /\ [][NextReconcile]_vars

\* ------------------------------------------------ scanner sync: the run
\* (acunetix_sync_pt.py main)

\* ---- what the scanner answers ----
NoCursor == -1

\* one page of GET /api/v1/target_groups from cursor c
GroupsPage(remote, c) ==
    [groups |-> SubSeq(remote, c + 1, Min({c + GroupPageLimit, Len(remote)})),
     next_cursor |-> IF c + GroupPageLimit < Len(remote)
                     THEN c + GroupPageLimit ELSE NoCursor]

RECURSIVE ListGroupsFrom(_, _)
ListGroupsFrom(remote, c) ==
    LET data == GroupsPage(remote, c)
    IN  data.groups \o (IF data.next_cursor = NoCursor THEN <<>>
                        ELSE ListGroupsFrom(remote, data.next_cursor))

\* acu_list_groups, had it read the first page only
acu_list_groups_first_page(remote) == GroupsPage(remote, 0).groups

acu_list_groups(remote) == ListGroupsFrom(remote, 0)

NoGroup == [name |-> None, group_id |-> None]

acu_find_group_by_name(gs, name) ==
    LET hits == {i \in 1..Len(gs) : gs[i].name = name}
    IN  IF hits = {} THEN NoGroup ELSE gs[Min(hits)]

\* the bulk add is accepted, had any other status passed as well
any_status_ok(status) == TRUE

\* add_result["status"] in (200, 201)
SubmitStatusOk(status) == status \in {200, 201}

Statuses == {200, 201, 204, 500}

\* the group POST /api/v1/target_groups makes in run n
NewGroup(name, n) == [name |-> name, group_id |-> ToString(n)]

\* the targets POST /api/v1/targets/add makes in run n
NewTargets(rows, n) ==
    [i \in 1..Len(rows) |->
        Entry(<<"t", ToString(n), ToString(i)>>, "address", rows[i].url)]

HasGroup(remote, name) == \E i \in 1..Len(remote) : remote[i].name = name

\* ---- steps ----
Step(name, next) ==
    /\ trace' = Append(trace, name)
    /\ pc' = next
    /\ UNCHANGED <<failedAt, exit_code>>

\* the exception handler of main: print the error, sys.exit(1)
Fail(name) ==
    /\ trace' = Append(trace, name)
    /\ pc' = "failed"
    /\ failedAt' = name
    /\ exit_code' = 1

Finished == pc \in {"idle", "done", "failed", "ended"}

StartRun ==
    /\ Finished
    /\ runs < MaxRuns
    /\ runs' = runs + 1
    /\ outcomes' = IF pc = "idle" THEN outcomes ELSE Append(outcomes, pc)
    /\ atStart' = mappingFile
    /\ dry_run' \in BOOLEAN
    /\ prepared_targets' = <<>>
    /\ groups' = <<>> /\ group_id' = None /\ add_result' = NoResult
    /\ all_targets' = <<>> /\ mapping' = EmptyDict
    /\ pc' = "dojo" /\ trace' = <<>> /\ failedAt' = None /\ exit_code' = NoExit
    /\ UNCHANGED <<created, mappingFile, remoteVars, artVars, tgVars, ssVars, enVars, upVars, nmVars>>

\* reading the product type or its products fails
DojoFails ==
    /\ pc = "dojo"
    /\ pc' = "failed" /\ failedAt' = "dojo" /\ exit_code' = 1
    /\ UNCHANGED <<trace, inVars, resVars, mappingFile, histVars>>
    /\ UNCHANGED <<remoteVars, artVars, tgVars, ssVars, enVars, upVars, nmVars>>

\* no product yields a target: the run reports ok false and returns
NoTargets ==
    /\ pc = "dojo"
    /\ pc' = "ended" /\ exit_code' = 0
    /\ UNCHANGED <<trace, failedAt, inVars, resVars, mappingFile, histVars>>
    /\ UNCHANGED <<remoteVars, artVars, tgVars, ssVars, enVars, upVars, nmVars>>

TargetsPrepared ==
    /\ pc = "dojo"
    /\ prepared_targets' = Submitted
    /\ pc' = "list_groups"
    /\ UNCHANGED <<trace, failedAt, exit_code, dry_run, resVars, mappingFile,
                   histVars>>
    /\ UNCHANGED <<remoteVars, artVars, tgVars, ssVars, enVars, upVars, nmVars>>

ListGroups ==
    /\ pc = "list_groups"
    /\ groups' = acu_list_groups(remoteGroups)
    /\ Step("list_groups", "find_or_create")
    /\ UNCHANGED <<group_id, add_result, all_targets, mapping>>
    /\ UNCHANGED <<inVars, mappingFile, histVars, remoteVars, artVars, tgVars, ssVars, enVars, upVars, nmVars>>

ListGroupsFails ==
    /\ pc = "list_groups"
    /\ Fail("list_groups")
    /\ UNCHANGED <<inVars, resVars, mappingFile, histVars>>
    /\ UNCHANGED <<remoteVars, artVars, tgVars, ssVars, enVars, upVars, nmVars>>

AfterGroup == IF dry_run THEN "dry_persist" ELSE "submit"

GroupFound ==
    /\ pc = "find_or_create"
    /\ acu_find_group_by_name(groups, PT_NAME) # NoGroup
    /\ group_id' = acu_find_group_by_name(groups, PT_NAME).group_id
    /\ Step("find_or_create", AfterGroup)
    /\ UNCHANGED <<groups, add_result, all_targets, mapping>>
    /\ UNCHANGED <<inVars, mappingFile, histVars, remoteVars, artVars, tgVars, ssVars, enVars, upVars, nmVars>>

DryRunGroup ==
    /\ pc = "find_or_create"
    /\ acu_find_group_by_name(groups, PT_NAME) = NoGroup
    /\ dry_run
    /\ group_id' = "dry-run-group-id"
    /\ Step("find_or_create", AfterGroup)
    /\ UNCHANGED <<groups, add_result, all_targets, mapping>>
    /\ UNCHANGED <<inVars, mappingFile, histVars, remoteVars, artVars, tgVars, ssVars, enVars, upVars, nmVars>>

Creation == [name |-> PT_NAME, run |-> runs,
             existed |-> HasGroup(remoteGroups, PT_NAME)]

CreateGroup ==
    /\ pc = "find_or_create"
    /\ acu_find_group_by_name(groups, PT_NAME) = NoGroup
    /\ ~dry_run
    /\ remoteGroups' = Append(remoteGroups, NewGroup(PT_NAME, runs))
    /\ created' = Append(created, Creation)
    /\ group_id' = NewGroup(PT_NAME, runs).group_id
    /\ Step("find_or_create", AfterGroup)
    /\ UNCHANGED <<groups, add_result, all_targets, mapping>>
    /\ UNCHANGED <<inVars, mappingFile, runs, atStart, outcomes>>
    /\ UNCHANGED <<remoteTargets, artVars, tgVars, ssVars, enVars, upVars, nmVars>>

\* the create request raises; the scanner may have made the group all the same
CreateGroupFails ==
    /\ pc = "find_or_create"
    /\ acu_find_group_by_name(groups, PT_NAME) = NoGroup
    /\ ~dry_run
    /\ \/ /\ remoteGroups' = Append(remoteGroups, NewGroup(PT_NAME, runs))
          /\ created' = Append(created, Creation)
       \/ UNCHANGED <<remoteGroups, created>>
    /\ Fail("find_or_create")
    /\ UNCHANGED <<inVars, resVars, mappingFile, runs, atStart, outcomes>>
    /\ UNCHANGED <<remoteTargets, artVars, tgVars, ssVars, enVars, upVars, nmVars>>

\* acu_targets_add answers; the status decides whether the run goes on
SubmitTargets ==
    /\ pc = "submit"
    /\ \E status \in Statuses, echo \in BOOLEAN :
          LET made == NewTargets(prepared_targets, runs)
              stored == status \in {200, 201}
          IN  /\ add_result' =
                    [status |-> status,
                     response |-> IF stored /\ echo THEN [targets |-> made]
                                  ELSE [_raw |-> <<>>]]
              /\ remoteTargets' = IF stored THEN remoteTargets \o made
                                  ELSE remoteTargets
              /\ IF SubmitStatusOk(status) THEN Step("submit", "list_all")
                 ELSE Fail("submit")
    /\ UNCHANGED <<groups, group_id, all_targets, mapping>>
    /\ UNCHANGED <<inVars, mappingFile, histVars, remoteGroups, artVars, tgVars, ssVars, enVars, upVars, nmVars>>

\* the request itself raises (connection error, timeout)
SubmitRaises ==
    /\ pc = "submit"
    /\ Fail("submit")
    /\ UNCHANGED <<inVars, resVars, mappingFile, histVars>>
    /\ UNCHANGED <<remoteVars, artVars, tgVars, ssVars, enVars, upVars, nmVars>>

ListAllTargets ==
    /\ pc = "list_all"
    /\ all_targets' = remoteTargets
    /\ Step("list_all", "reconcile")
    /\ UNCHANGED <<groups, group_id, add_result, mapping>>
    /\ UNCHANGED <<inVars, mappingFile, histVars, remoteVars, artVars, tgVars, ssVars, enVars, upVars, nmVars>>

ListAllTargetsFails ==
    /\ pc = "list_all"
    /\ Fail("list_all")
    /\ UNCHANGED <<inVars, resVars, mappingFile, histVars>>
    /\ UNCHANGED <<remoteVars, artVars, tgVars, ssVars, enVars, upVars, nmVars>>

\* --dry-run: nothing is submitted; the mapping of placeholders is saved
dry_run_mapping(rows) ==
    [k \in {ToString(rows[i].product_id) :
                i \in {j \in 1..Len(rows) : rows[j].product_id # NoId}} |->
        <<"dry-run-target-id">>]

DryRunPersist ==
    /\ pc = "dry_persist"
    /\ mapping' = dry_run_mapping(prepared_targets)
    /\ mappingFile' = save_product_target_mapping(mapping', PT_ID, ACU_BASE_URL,
                                                  mappingFile, runs)
    /\ trace' = Append(trace, "dry_persist")
    /\ pc' = "done"
    /\ exit_code' = 0
    /\ UNCHANGED <<groups, group_id, add_result, all_targets>>
    /\ UNCHANGED <<failedAt, inVars, histVars, remoteVars, artVars, tgVars, ssVars, enVars, upVars, nmVars>>

DryRunPersistFails ==
    /\ pc = "dry_persist"
    /\ mapping' = dry_run_mapping(prepared_targets)
    /\ Fail("dry_persist")
    /\ UNCHANGED <<groups, group_id, add_result, all_targets>>
    /\ UNCHANGED <<inVars, mappingFile, histVars, remoteVars, artVars, tgVars, ssVars, enVars, upVars, nmVars>>

GroupNames == {PT_NAME, "PT"}
OldGroup(name) == [name |-> name, group_id |-> "old-" \o name]

Init ==
    /\ pc = "idle"
    /\ dry_run = FALSE /\ prepared_targets = <<>>
    /\ \E names \in SeqsUpTo(GroupNames, MaxInitGroups) :
          remoteGroups = [i \in 1..Len(names) |-> OldGroup(names[i])]
    /\ remoteTargets = <<>>
    /\ groups = <<>> /\ group_id = None /\ add_result = NoResult
    /\ all_targets = <<>> /\ mapping = EmptyDict
    /\ mappingFile \in {NoMappingFile, OldMappingFile}
    /\ trace = <<>> /\ failedAt = None /\ exit_code = NoExit
    /\ runs = 0 /\ created = <<>> /\ atStart = mappingFile
    /\ outcomes = <<>>
    /\ ArtifactIdle /\ UpsertIdle /\ NmapIdle /\ TargetsIdle /\ SpeedIdle /\ EnumIdle

Next ==
    \/ StartRun \/ DojoFails \/ NoTargets \/ TargetsPrepared
    \/ ListGroups \/ ListGroupsFails
    \/ GroupFound \/ DryRunGroup \/ CreateGroup \/ CreateGroupFails
    \/ SubmitTargets \/ SubmitRaises
    \/ ListAllTargets \/ ListAllTargetsFails
    \/ Reconcile \/ PersistMapping \/ PersistFails
    \/ DryRunPersist \/ DryRunPersistFails

Spec == Init /\ [][Next]_vars

\* ------------------------------------------- nmap processing: host names
\* (process_nmap_ips_for_pt.py)
\* A name is a sequence of the tokens "g", "H" (letters that are no hex
\* digits), "8", "80", "8080", "8443" (digit strings), ".", ":", "/", "@",
\* " ", "www." / "WWW." and, as the first token only, a scheme with its
\* "://".

DigitLen(tok) ==
    CASE tok = "8" -> 1
      [] tok \in {"22", "80"} -> 2
      [] tok \in {"443", "999"} -> 3
      [] tok \in {"8000", "8080", "8443", "9443"} -> 4
      [] OTHER -> 0

IsDigits(s) == s # <<>> /\ \A i \in 1..Len(s) : DigitLen(s[i]) > 0

RECURSIVE SumLen(_)
SumLen(s) == IF s = <<>> THEN 0 ELSE DigitLen(Head(s)) + SumLen(Tail(s))

IndexOf(s, tok) ==
    LET at == {i \in 1..Len(s) : s[i] = tok}
    IN  IF at = {} THEN 0 ELSE Min(at)

Count(s, tok) == Cardinality({i \in 1..Len(s) : s[i] = tok})

\* s.split(tok, 1)[0] and [1]
BeforeFirst(s, tok) ==
    IF IndexOf(s, tok) = 0 THEN s ELSE SubSeq(s, 1, IndexOf(s, tok) - 1)
AfterFirst(s, tok) ==
    IF IndexOf(s, tok) = 0 THEN <<>> ELSE SubSeq(s, IndexOf(s, tok) + 1, Len(s))

\* s.rsplit(tok, 1)[1]
AfterLast(s, tok) ==
    LET at == {i \in 1..Len(s) : s[i] = tok}
    IN  IF at = {} THEN s ELSE SubSeq(s, Max(at) + 1, Len(s))

\* s.split(tok)
RECURSIVE SplitOn(_, _)
SplitOn(s, tok) ==
    IF IndexOf(s, tok) = 0 THEN <<s>>
    ELSE <<BeforeFirst(s, tok)>> \o SplitOn(AfterFirst(s, tok), tok)

\* s.strip("."): "www." ends in a dot of its own
StripDots(s) ==
    LET keep == {i \in 1..Len(s) : s[i] # "."}
        core == IF keep = {} THEN <<>> ELSE SubSeq(s, Min(keep), Max(keep))
        n == Len(core)
    IN  IF n > 0 /\ core[n] \in {"www.", "WWW."}
        THEN SubSeq(core, 1, n - 1) \o <<IF core[n] = "www." THEN "www" ELSE "WWW">>
        ELSE core

\* a decimal group of an IPv4 address: "8", "22", "80" and "8" "8" are at
\* most 255, three digits of these tokens are not
IsOctet(g) == IsDigits(g) /\ (SumLen(g) = 1 \/ (SumLen(g) = 2 /\ Len(g) <= 2))

IsIPv4(s) ==
    LET parts == SplitOn(s, ".")
    IN  Len(parts) = 4 /\ \A i \in 1..4 : IsOctet(parts[i])

\* a group of an IPv6 address: one to four hex digits, "F" and "f" among
\* them
HexLetters == {"F", "f"}
IsHextet(g) ==
    /\ g # <<>>
    /\ \A i \in 1..Len(g) : DigitLen(g[i]) > 0 \/ g[i] \in HexLetters
    /\ SumLen(g) + Cardinality({i \in 1..Len(g) : g[i] \in HexLetters}) <= 4

\* IPv6 without an IPv4 tail and without a zone
IsIPv6(s) ==
    LET parts == SplitOn(s, ":")
        n == Len(s)
        pairs == {i \in 1..(n - 1) : s[i] = ":" /\ s[i + 1] = ":"}
        filled == {i \in 1..Len(parts) : parts[i] # <<>>}
    IN  /\ n >= 2
        /\ \A i \in filled : IsHextet(parts[i])
        /\ IF pairs = {}
           THEN Len(parts) = 8 /\ Cardinality(filled) = 8
           ELSE /\ Cardinality(pairs) = 1
                /\ s[1] = ":" => s[2] = ":"
                /\ s[n] = ":" => s[n - 1] = ":"
                /\ Cardinality(filled) <= 7

looks_like_ip(s) == IsIPv4(s) \/ IsIPv6(s)

strip_www(host) ==
    LET h == Strip(host)
    IN  IF h # <<>> /\ Lower(h)[1] = "www." THEN Tail(h) ELSE h

NameSchemes == {"http://", "https://"}

\* urlsplit(raw).hostname or "", for a netloc without brackets
UrlHostname(raw) ==
    LET netloc == BeforeFirst(Tail(raw), "/")
        hostinfo == AfterLast(netloc, "@")
    IN  Lower(BeforeFirst(hostinfo, ":"))

extract_host_from_product_name(value) ==
    LET raw == Strip(value)
        first == BeforeFirst(raw, "/")
        noUser == IF IndexOf(Strip(first), "@") # 0
                  THEN Strip(AfterLast(Strip(first), "@")) ELSE Strip(first)
        noPort == IF Count(noUser, ":") = 1 /\ IsDigits(AfterFirst(noUser, ":"))
                  THEN BeforeFirst(noUser, ":") ELSE noUser
        candidate == IF Lower(raw)[1] \in NameSchemes
                     THEN Strip(UrlHostname(raw)) ELSE noPort
    IN  IF raw = <<>> THEN <<>>
        ELSE Lower(StripDots(Strip(candidate)))

\* ------------------------------------------ scanner sync: product values
\* (acunetix_sync_pt.py)
\* A value of a product field as the JSON of DefectDojo gives it: a
\* boolean, a string, a number, null or a list.
PyBool(b) == [bool |-> b]
PyStr(text) == [str |-> text]
PyNum(n) == [num |-> n]
PyNone == [none |-> TRUE]
PyList(items) == [list |-> items]

IsPy(val, type) == type \in DOMAIN val

TrueWords == {<<"1">>, <<"true">>, <<"yes">>, <<"y">>, <<"on">>}

normalize_bool(val) ==
    CASE IsPy(val, "bool") -> val.bool
      [] IsPy(val, "str") -> Lower(Strip(val.str)) \in TrueWords
      [] IsPy(val, "num") -> val.num # 0
      [] OTHER -> FALSE

\* bool(val), the test of an "if val:"
Truthy(val) ==
    CASE IsPy(val, "bool") -> val.bool
      [] IsPy(val, "str") -> val.str # <<>>
      [] IsPy(val, "num") -> val.num # 0
      [] IsPy(val, "list") -> val.list # <<>>
      [] OTHER -> FALSE

\* ------------------------------------------- scanner sync: product names
\* int() of a digit string; a string of more than five digits stands for a
\* number above every port
DigitVal(tok) ==
    CASE tok = "8" -> 8 [] tok = "22" -> 22 [] tok = "80" -> 80
      [] tok = "443" -> 443 [] tok = "999" -> 999 [] tok = "8000" -> 8000
      [] tok = "8080" -> 8080 [] tok = "8443" -> 8443 [] tok = "9443" -> 9443
      [] OTHER -> 0

MaxPort == 65535

RECURSIVE IntOf(_)
IntOf(s) ==
    IF s = <<>> THEN 0
    ELSE IF SumLen(s) > 5 THEN MaxPort + 1
    ELSE IntOf(SubSeq(s, 1, Len(s) - 1)) * (10 ^ DigitLen(s[Len(s)]))
            + DigitVal(s[Len(s)])

\* the ValueError that leaves a function, where a text is expected
ValueError == <<"<ValueError>">>

\* urlsplit(raw).port of a netloc without brackets: None (here 0, which the
\* callers treat alike) without a port, the number, or the ValueError of a
\* port that is no number or lies above 65535
NoPort == 0
PortError == -1
UrlPort(raw) ==
    LET netloc == BeforeFirst(Tail(raw), "/")
        hostinfo == AfterLast(netloc, "@")
        port == AfterFirst(hostinfo, ":")
    IN  IF port = <<>> THEN NoPort
        ELSE IF ~IsDigits(port) \/ IntOf(port) > MaxPort THEN PortError
        ELSE IntOf(port)

\* f"{scheme}://{host}" and f"{scheme}://{host}:{port}" of a split URL
SchemeHostPort(raw, portText) ==
    LET scheme == Lower(<<raw[1]>>)
        host == Lower(Strip(UrlHostname(raw)))
    IN  IF host = <<>> THEN <<>>
        ELSE IF UrlPort(raw) = PortError THEN ValueError
        ELSE IF UrlPort(raw) = NoPort THEN scheme \o host
        ELSE scheme \o host \o <<":">> \o portText

\* the digits of the port as the netloc has them
PortText(raw) ==
    AfterFirst(AfterLast(BeforeFirst(Tail(raw), "/"), "@"), ":")

normalize_product_name(raw_name) ==
    LET name == Strip(StrOrEmpty(raw_name))
        base == Strip(BeforeFirst(name, "/"))
    IN  IF name = <<>> THEN <<>>
        ELSE IF Lower(name)[1] \in NameSchemes
        THEN SchemeHostPort(name, PortText(name))
        ELSE IF IndexOf(base, "@") # 0 THEN Lower(Strip(AfterLast(base, "@")))
        ELSE Lower(base)

\* the ports of an IP address that get the https scheme
HttpsPorts == {8443, 9443}

\* value[1:value.find("]")] and value[value.find("]") + 1:]
InBrackets(value) == SubSeq(value, 2, IndexOf(value, "]") - 1)
AfterBracket(value) == SubSeq(value, IndexOf(value, "]") + 1, Len(value))

\* the target URL, had an IP address with a port been treated as a domain
target_url_always_https(name) ==
    LET value == Lower(Strip(StrOrEmpty(name)))
    IN  IF value = <<>> THEN <<>>
        ELSE IF value[1] \in NameSchemes
        THEN SchemeHostPort(value, PortText(value))
        ELSE IF value[1] = "www." THEN <<"https://">> \o Tail(value)
        ELSE <<"https://">> \o value

product_name_to_target_url(name) ==
    LET value == Lower(Strip(StrOrEmpty(name)))
        bracketed == value[1] = "[" /\ IndexOf(value, "]") # 0
        onePort == Count(value, ":") = 1 /\ IsDigits(AfterFirst(value, ":"))
        host_for_ip == IF bracketed THEN Strip(InBrackets(value))
                       ELSE IF onePort THEN BeforeFirst(value, ":")
                       ELSE value
        suffix == AfterBracket(value)
        has_port == /\ IndexOf(value, ":") # 0 /\ IndexOf(value, SP) = 0
                    /\ bracketed => (suffix # <<>> /\ suffix[1] = ":")
        port == IF bracketed
                THEN IF suffix # <<>> /\ suffix[1] = ":" /\ IsDigits(Tail(suffix))
                     THEN IntOf(Tail(suffix)) ELSE NoPort
                ELSE IF onePort THEN IntOf(AfterFirst(value, ":"))
                ELSE NoPort
    IN  IF value = <<>> THEN <<>>
        ELSE IF value[1] \in NameSchemes
        THEN SchemeHostPort(value, PortText(value))
        ELSE IF looks_like_ip(host_for_ip) /\ has_port
        THEN <<IF port \in HttpsPorts THEN "https://" ELSE "http://">> \o value
        ELSE IF value[1] = "www." THEN <<"https://">> \o Tail(value)
        ELSE <<"https://">> \o value

\* --------------------------------------------- nmap processing: the XML
EXCLUDE_PORTS == {80, 443}
WebPorts == {8000, 8008, 8080, 8443, 8888, 9000, 9443}
TlsPorts == {8443, 9443}

\* "http" in svc_name.lower(), "ssl" in svc_tunnel.lower()
HasHttp(name) == name \in {"http", "HTTP", "https", "http-proxy"}
HasSsl(tunnel) == tunnel \in {"ssl", "SSL"}

\* the findings of one <host>: its first non-empty address, its open ports
\* that are not excluded and look like web services
\* the findings of one <host>, had the state of a port not been looked at
HostFindingsAnyState(host) ==
    LET withAddr == {i \in 1..Len(host.addrs) : host.addrs[i] # <<>>}
        ip_addr == host.addrs[Min(withAddr)]
        Web(p) == /\ p.portid >= 0
                  /\ p.portid \notin EXCLUDE_PORTS
                  /\ \/ HasHttp(p.name) \/ HasSsl(p.tunnel)
                     \/ p.portid \in WebPorts
        Finding(p) == <<ip_addr, p.portid,
                        IF HasSsl(p.tunnel) \/ p.portid \in TlsPorts
                        THEN "https" ELSE "http">>
    IN  IF withAddr = {} \/ ~host.hasPorts THEN <<>>
        ELSE MapSeq(Finding, SelectSeq(host.ports, Web))

HostFindings(host) ==
    LET withAddr == {i \in 1..Len(host.addrs) : host.addrs[i] # <<>>}
        ip_addr == host.addrs[Min(withAddr)]
        Web(p) == /\ p.state = "open"
                  /\ p.portid >= 0
                  /\ p.portid \notin EXCLUDE_PORTS
                  /\ \/ HasHttp(p.name) \/ HasSsl(p.tunnel)
                     \/ p.portid \in WebPorts
        Finding(p) == <<ip_addr, p.portid,
                        IF HasSsl(p.tunnel) \/ p.portid \in TlsPorts
                        THEN "https" ELSE "http">>
    IN  IF withAddr = {} \/ ~host.hasPorts THEN <<>>
        ELSE MapSeq(Finding, SelectSeq(host.ports, Web))

\* parse_nmap_xml_for_ips: no file or no XML gives the empty list
parse_nmap_xml_for_ips(doc) ==
    IF doc.kind # "xml" THEN <<>>
    ELSE Concat(MapSeq(HostFindings, doc.hosts))

\* ------------------------------------------ nmap processing: line order
\* the code points of a token, for the order sorted() puts strings in
Codes(tok) ==
    CASE tok = SP -> <<32>> [] tok = "," -> <<44>> [] tok = "." -> <<46>>
      [] tok = "/" -> <<47>> [] tok = ":" -> <<58>> [] tok = "@" -> <<64>>
      [] tok = "8" -> <<56>> [] tok = "22" -> <<50, 50>>
      [] tok = "80" -> <<56, 48>> [] tok = "443" -> <<52, 52, 51>>
      [] tok = "999" -> <<57, 57, 57>>
      [] tok = "8000" -> <<56, 48, 48, 48>> [] tok = "8080" -> <<56, 48, 56, 48>>
      [] tok = "8443" -> <<56, 52, 52, 51>> [] tok = "9443" -> <<57, 52, 52, 51>>
      [] tok = "9000" -> <<57, 48, 48, 48>>
      [] tok = "H" -> <<72>> [] tok = "g" -> <<103>> [] tok = "h" -> <<104>>
      [] tok = "F" -> <<70>> [] tok = "f" -> <<102>>
      [] tok = "www." -> <<119, 119, 119, 46>> [] tok = "www" -> <<119, 119, 119>>
      [] tok = "WWW." -> <<87, 87, 87, 46>> [] tok = "WWW" -> <<87, 87, 87>>
      [] tok = "http://" -> <<104, 116, 116, 112, 58, 47, 47>>
      [] tok = "https://" -> <<104, 116, 116, 112, 115, 58, 47, 47>>

Chars(text) == Concat(MapSeq(Codes, text))

\* a < b as Python compares strings
StrLess(a, b) ==
    LET x == Chars(a)
        y == Chars(b)
        diff == {i \in 1..Min({Len(x), Len(y)}) : x[i] # y[i]}
    IN  IF diff = {} THEN Len(x) < Len(y) ELSE x[Min(diff)] < y[Min(diff)]

\* sorted(set of strings)
RECURSIVE Sorted(_)
Sorted(S) ==
    IF S = {} THEN <<>>
    ELSE LET m == CHOOSE x \in S : \A y \in S \ {x} : StrLess(x, y)
         IN  <<m>> \o Sorted(S \ {m})

\* the order-preserving dedupe at the end of step 6
RECURSIVE Unique(_, _)
Unique(ls, seen) ==
    IF ls = <<>> THEN <<>>
    ELSE IF Head(ls) # <<>> /\ Head(ls) \notin seen
         THEN <<Head(ls)>> \o Unique(Tail(ls), seen \cup {Head(ls)})
         ELSE Unique(Tail(ls), seen)

\* ------------------------------------- nmap processing: the product type
\* (process_single_product_type, main)

PtPath == "/product_types/5/"

\* ---- DefectDojo ----
\* what a request does to the product type and its products
DojoApply(d, req) ==
    CASE req.method = "POST" /\ req.path = "/products/" ->
            [d EXCEPT !.products =
                Append(@, [id |-> Len(@) + 1,
                           name |-> req.payload.name,
                           internet_accessible |-> req.payload.internet_accessible])]
      [] req.method \in {"PATCH", "PUT"} /\ req.path = PtPath ->
            [d EXCEPT !.pt.description = req.payload.description]
      [] OTHER -> d

\* GET /products/?prod_type=..&limit=..&offset=..
ProductsPage(products, offset) ==
    [results |-> SubSeq(products, offset + 1,
                        Min({offset + DojoPageLimit, Len(products)})),
     next |-> offset + DojoPageLimit < Len(products)]

\* step 2: page after page until one is empty or names no next page
RECURSIVE LoadProductsFrom(_, _)
LoadProductsFrom(products, offset) ==
    LET data == ProductsPage(products, offset)
    IN  IF data.results = <<>> THEN <<>>
        ELSE data.results \o (IF ~data.next THEN <<>>
                              ELSE LoadProductsFrom(products, offset + DojoPageLimit))

RECURSIVE PagesRead(_, _)
PagesRead(products, offset) ==
    LET data == ProductsPage(products, offset)
    IN  IF data.results = <<>> \/ ~data.next THEN 1
        ELSE 1 + PagesRead(products, offset + DojoPageLimit)

\* ---- requests ----
get_request(path) == [method |-> "GET", path |-> path, payload |-> <<>>]

\* the product creation, had it been a patch of the product type
patch_request(payload) == [method |-> "PATCH", path |-> PtPath, payload |-> payload]

\* api_post("/products/", payload)
create_request(payload) == [method |-> "POST", path |-> "/products/", payload |-> payload]

AutoDescription == <<"Auto-created from nmap XML">>

CreatePayload(prod_name) ==
    [name |-> prod_name, prod_type |-> PT_ID, description |-> AutoDescription,
     internet_accessible |-> PyBool(TRUE)]

\* ---- steps 3 and 4 ----
domain_hosts_of(products) ==
    {strip_www(extract_host_from_product_name(products[i].name)) : i \in
        {j \in 1..Len(products) :
            /\ Truthy(products[j].internet_accessible)
            /\ extract_host_from_product_name(products[j].name) # <<>>
            /\ ~looks_like_ip(extract_host_from_product_name(products[j].name))}}

ProductName(finding) == finding[1] \o <<":", ToString(finding[2])>>

\* candidates[prod_name] = proto, finding after finding: the last one wins
\* the candidates, had the first finding of a name been kept
RECURSIVE PutFindingsFirstWins(_, _)
PutFindingsFirstWins(cands, findings) ==
    IF findings = <<>> THEN cands
    ELSE PutFindingsFirstWins(
             cands @@ (ProductName(Head(findings)) :> Head(findings)[3]),
             Tail(findings))

RECURSIVE PutFindings(_, _)
PutFindings(cands, findings) ==
    IF findings = <<>> THEN cands
    ELSE PutFindings((ProductName(Head(findings)) :> Head(findings)[3]) @@ cands,
                     Tail(findings))

RECURSIVE CollectCandidates(_, _, _)
CollectCandidates(cands, products, docs) ==
    IF products = <<>> THEN cands
    ELSE LET pid == Head(products).id
             found == IF pid \in DOMAIN docs
                      THEN parse_nmap_xml_for_ips(docs[pid]) ELSE <<>>
         IN  CollectCandidates(PutFindings(cands, found), Tail(products), docs)

SchemeToken(proto) == IF proto = "https" THEN "https://" ELSE "http://"

IpLine(prod_name, proto, pt_name) ==
    <<SchemeToken(proto)>> \o prod_name \o <<",", SP>> \o pt_name

DomainLine(host, pt_name) == <<"https://">> \o host \o <<",", SP>> \o pt_name

\* step 6: the product type's own host, the domains, the IP:port lines
\* step 6, had the IP:port lines been put before the domain lines
unique_lines_ip_first(l) ==
    LET pt_host == extract_host_from_product_name(l.pt_name)
        own == IF pt_host # <<>> /\ ~looks_like_ip(pt_host)
               THEN <<DomainLine(strip_www(pt_host), l.pt_name)>> ELSE <<>>
        domains == [i \in 1..Len(Sorted(l.domain_hosts)) |->
                        DomainLine(Sorted(l.domain_hosts)[i], l.pt_name)]
    IN  Unique(own \o Sorted(l.ip_lines_set) \o domains, {})

unique_lines(l) ==
    LET pt_host == extract_host_from_product_name(l.pt_name)
        own == IF pt_host # <<>> /\ ~looks_like_ip(pt_host)
               THEN <<DomainLine(strip_www(pt_host), l.pt_name)>> ELSE <<>>
        domains == [i \in 1..Len(Sorted(l.domain_hosts)) |->
                        DomainLine(Sorted(l.domain_hosts)[i], l.pt_name)]
    IN  Unique(own \o domains \o Sorted(l.ip_lines_set), {})

\* ---- the run ----
NmapExit(code) == npc' = "exit" /\ nmExit' = code

NmapLoadProductType ==
    /\ npc = "load_pt"
    /\ reqs' = Append(reqs, get_request(PtPath))
    /\ loc' = [loc EXCEPT !.pt_name = dojo.pt.name]
    /\ npc' = "load_products"
    /\ UNCHANGED <<DRY_RUN, dojo, dojo0, xmls, summary, nmExit>>
    /\ UNCHANGED <<artVars, tgVars, ssVars, enVars, upVars, syncVars>>

NmapLoadProductTypeFails ==
    /\ npc = "load_pt"
    /\ reqs' = Append(reqs, get_request(PtPath))
    /\ NmapExit(1)
    /\ UNCHANGED <<DRY_RUN, dojo, dojo0, xmls, loc, summary>>
    /\ UNCHANGED <<artVars, tgVars, ssVars, enVars, upVars, syncVars>>

NmapLoadProducts ==
    /\ npc = "load_products"
    /\ reqs' = reqs \o [i \in 1..PagesRead(dojo.products, 0) |->
                            get_request("/products/")]
    /\ LET products == LoadProductsFrom(dojo.products, 0)
           candidates == CollectCandidates(EmptyDict, products, xmls)
       IN  loc' = [loc EXCEPT
                    !.products = products,
                    !.existing_product_names =
                        {products[i].name : i \in 1..Len(products)},
                    !.domain_hosts = domain_hosts_of(products),
                    !.candidates = candidates,
                    !.queue = Sorted(DOMAIN candidates)]
    /\ npc' = "create"
    /\ UNCHANGED <<DRY_RUN, dojo, dojo0, xmls, summary, nmExit>>
    /\ UNCHANGED <<artVars, tgVars, ssVars, enVars, upVars, syncVars>>

NmapLoadProductsFails ==
    /\ npc = "load_products"
    /\ reqs' = Append(reqs, get_request("/products/"))
    /\ NmapExit(1)
    /\ UNCHANGED <<DRY_RUN, dojo, dojo0, xmls, loc, summary>>
    /\ UNCHANGED <<artVars, tgVars, ssVars, enVars, upVars, syncVars>>

\* the line of the candidate at the head of the queue joins the IP lines
TakeCandidate(l) ==
    [l EXCEPT !.queue = Tail(@),
              !.ip_lines_set = @ \cup
                  {IpLine(Head(l.queue), l.candidates[Head(l.queue)], l.pt_name)}]

NmapSkipExisting ==
    /\ npc = "create" /\ loc.queue # <<>>
    /\ Head(loc.queue) \in loc.existing_product_names
    /\ loc' = TakeCandidate(loc)
    /\ UNCHANGED <<npc, DRY_RUN, dojo, dojo0, xmls, reqs, summary, nmExit>>
    /\ UNCHANGED <<artVars, tgVars, ssVars, enVars, upVars, syncVars>>

\* api_post answers: with --dry-run nothing is sent and the name is kept
NmapCreateProduct ==
    /\ npc = "create" /\ loc.queue # <<>>
    /\ Head(loc.queue) \notin loc.existing_product_names
    /\ LET prod_name == Head(loc.queue)
           req == create_request(CreatePayload(prod_name))
       IN  /\ reqs' = IF DRY_RUN THEN reqs ELSE Append(reqs, req)
           /\ dojo' = IF DRY_RUN THEN dojo ELSE DojoApply(dojo, req)
           /\ loc' = [TakeCandidate(loc) EXCEPT
                        !.created_products = Append(@, prod_name),
                        !.existing_product_names = @ \cup {prod_name}]
    /\ UNCHANGED <<npc, DRY_RUN, dojo0, xmls, summary, nmExit>>
    /\ UNCHANGED <<artVars, tgVars, ssVars, enVars, upVars, syncVars>>

\* the server refuses the creation: the HTTPError is noted and the loop goes on
NmapCreateHttpError ==
    /\ npc = "create" /\ loc.queue # <<>>
    /\ Head(loc.queue) \notin loc.existing_product_names
    /\ ~DRY_RUN
    /\ reqs' = Append(reqs, create_request(CreatePayload(Head(loc.queue))))
    /\ loc' = [TakeCandidate(loc) EXCEPT
                 !.created_products = Append(@, Head(loc.queue) \o <<" (error)">>)]
    /\ UNCHANGED <<npc, DRY_RUN, dojo, dojo0, xmls, summary, nmExit>>
    /\ UNCHANGED <<artVars, tgVars, ssVars, enVars, upVars, syncVars>>

\* the request fails with no HTTP answer: the error leaves the function
NmapCreateRaises ==
    /\ npc = "create" /\ loc.queue # <<>>
    /\ Head(loc.queue) \notin loc.existing_product_names
    /\ ~DRY_RUN
    /\ reqs' = Append(reqs, create_request(CreatePayload(Head(loc.queue))))
    /\ NmapExit(1)
    /\ UNCHANGED <<DRY_RUN, dojo, dojo0, xmls, loc, summary>>
    /\ UNCHANGED <<artVars, tgVars, ssVars, enVars, upVars, syncVars>>

\* steps 6 and 7: the lines, the artifact, the summary; exit code 0
NmapWriteArtifact ==
    /\ npc = "create" /\ loc.queue = <<>>
    /\ lines' = unique_lines(loc)
    /\ LET content == render_targets_artifact(lines')
           check == parse_targets_artifact(content)
       IN  /\ artifact' = IF check.ok THEN content ELSE artifact
           /\ call' = [op |-> "write", content |-> content, raised |-> ~check.ok,
                       written |-> check.ok, before |-> artifact]
           /\ summary' = [summary EXCEPT
                            !.created_ip_products = loc.created_products,
                            !.targets_artifact_path = check.ok,
                            !.error = ~check.ok]
    /\ NmapExit(0)
    /\ UNCHANGED <<DRY_RUN, dojo, dojo0, xmls, reqs, loc>>
    /\ UNCHANGED <<upVars, tgVars, ssVars, enVars, syncVars>>

\* ---- inputs ----
Host8 == <<"8", ".", "8", ".", "8", ".", "8">>

PtNames == {<<"g", ".", "h">>, <<"WWW.", "g", ".", "h">>, Host8}
StateBlock == <<STATE_START, NL, "x", NL, STATE_END>>
PtDescriptions == {<<>>, StateBlock}
\* the product types of the runs: name and description
ProductTypes ==
    {<<<<"g", ".", "h">>, StateBlock>>, <<<<"WWW.", "g", ".", "h">>, <<>>>>,
     <<Host8, StateBlock>>}

ProductPool ==
    <<[name |-> <<"www.", "g", ".", "h">>, internet_accessible |-> PyBool(TRUE)],
      [name |-> <<"https://", "H", ".", "g", "/", "8">>,
       internet_accessible |-> PyBool(TRUE)],
      [name |-> <<"g", ".", "h">>, internet_accessible |-> PyBool(FALSE)],
      [name |-> Host8 \o <<":", "8080">>, internet_accessible |-> PyBool(TRUE)],
      [name |-> <<"g", ".", "g">>, internet_accessible |-> PyStr(<<"false">>)]>>

\* the products of the pool with their index in S, in the order of the pool
Picked(S) ==
    [i \in 1..Cardinality(S) |->
        ProductPool[CHOOSE x \in S : Cardinality({y \in S : y < x}) = i - 1]]

Port(state, portid, name, tunnel) ==
    [state |-> state, portid |-> portid, name |-> name, tunnel |-> tunnel]

XmlHost(addrs, hasPorts, ports) ==
    [addrs |-> addrs, hasPorts |-> hasPorts, ports |-> ports]

XmlDocs ==
    {[kind |-> "absent"],
     [kind |-> "malformed"],
     [kind |-> "xml", hosts |-> <<
        XmlHost(<<Host8>>, TRUE,
                <<Port("open", 8080, "http", ""), Port("open", 80, "http", ""),
                  Port("open", 22, "ssh", "")>>),
        XmlHost(<<<<"F", ":", ":", "8">>>>, TRUE,
                <<Port("open", 8443, "", "")>>)>>],
     [kind |-> "xml", hosts |-> <<
        XmlHost(<<<<>>, Host8>>, TRUE,
                <<Port("open", 8080, "", "ssl"),
                  Port("closed", 9000, "http", "")>>),
        XmlHost(<<>>, TRUE, <<Port("open", 8000, "", "")>>),
        XmlHost(<<<<"8", ":", ":", "8">>>>, FALSE, <<>>),
        XmlHost(<<<<"f", ":", ":", "8">>>>, TRUE,
                <<Port("open", 8443, "", "")>>)>>]}

InitNmap ==
    /\ npc = "load_pt"
    /\ DRY_RUN \in BOOLEAN
    /\ \E pt \in ProductTypes,
          S \in {T \in SUBSET (1..Len(ProductPool)) : Cardinality(T) <= MaxProducts} :
          dojo = [pt |-> [id |-> PT_ID, name |-> pt[1], description |-> pt[2]],
                  products |-> [i \in 1..Cardinality(S) |->
                                  [id |-> i, name |-> Picked(S)[i].name,
                                   internet_accessible |->
                                       Picked(S)[i].internet_accessible]]]
    /\ dojo0 = dojo
    /\ xmls \in [1..Len(dojo.products) -> XmlDocs]
    /\ reqs = <<>>
    /\ loc = NoLocals /\ summary = NoSummary /\ nmExit = NoExit
    /\ ArtifactIdle /\ UpsertIdle /\ SyncIdle /\ TargetsIdle /\ SpeedIdle /\ EnumIdle

NextNmap ==
    \/ NmapLoadProductType \/ NmapLoadProductTypeFails
    \/ NmapLoadProducts \/ NmapLoadProductsFails
    \/ NmapSkipExisting \/ NmapCreateProduct
    \/ NmapCreateHttpError \/ NmapCreateRaises
    \/ NmapWriteArtifact

SpecNmap == InitNmap /\ [][NextNmap]_vars

\* ------------------------------------------ scanner sync: the target list
\* (acunetix_sync_pt.py: build_targets_from_products, main up to the check
\* of the prepared URLs)

\* the product passes the filters that come before its name is normalized
Considered(prod) ==
    normalize_bool(prod.internet_accessible) /\ prod.id # NoId

\* normalize_product_name raises for a product the loop reaches
build_raises(products) ==
    \E i \in 1..Len(products) :
        /\ Considered(products[i])
        /\ normalize_product_name(products[i].name) = ValueError

RECURSIVE BuildFrom(_, _)
BuildFrom(products, seen) ==
    IF products = <<>> THEN <<>>
    ELSE LET prod == Head(products)
             normalized_name == normalize_product_name(prod.name)
             url == product_name_to_target_url(normalized_name)
         IN  IF \/ ~Considered(prod)
                \/ normalized_name = <<>>
                \/ url = <<>>
                \/ url \in seen
             THEN BuildFrom(Tail(products), seen)
             ELSE <<[product_id |-> prod.id, url |-> url,
                     product_name |-> normalized_name]>>
                  \o BuildFrom(Tail(products), seen \cup {url})

\* the targets when no name raises
build_targets_from_products(products) == BuildFrom(products, {})

\* main: the products are turned into targets and the run goes on
PrepareTargets ==
    /\ tpc = "prepare"
    /\ ~build_raises(dojo_products)
    /\ build_targets_from_products(dojo_products) # <<>>
    /\ built_targets' = build_targets_from_products(dojo_products)
    /\ tpc' = "acunetix"
    /\ UNCHANGED <<dojo_products, tExit>>
    /\ UNCHANGED <<artVars, upVars, syncVars, nmVars, ssVars, enVars>>

\* main: no URL was prepared, the run reports it and returns
PrepareNoTargets ==
    /\ tpc = "prepare"
    /\ ~build_raises(dojo_products)
    /\ build_targets_from_products(dojo_products) = <<>>
    /\ tpc' = "returned"
    /\ tExit' = 0
    /\ UNCHANGED <<dojo_products, built_targets>>
    /\ UNCHANGED <<artVars, upVars, syncVars, nmVars, ssVars, enVars>>

\* main: the ValueError of a name reaches the except clause of main
PrepareRaises ==
    /\ tpc = "prepare"
    /\ build_raises(dojo_products)
    /\ tpc' = "failed"
    /\ tExit' = 1
    /\ UNCHANGED <<dojo_products, built_targets>>
    /\ UNCHANGED <<artVars, upVars, syncVars, nmVars, ssVars, enVars>>

\* ---- inputs ----
\* a name: scheme, "www.", host, port and path, each present or not
NameParts ==
    <<{<<>>, <<"https://">>, <<"HTTP://">>},
      {<<>>, <<"WWW.">>, <<"www.">>},
      {<<>>, <<"g", ".", "H">>, Host8},
      {<<>>, <<":", "80">>, <<":", "8443">>, <<":", "9443">>, <<":", "g">>,
       <<":", "8080", "80">>},
      {<<>>, <<"/", "g">>}>>

Names ==
    {a \o b \o c \o d \o e :
        a \in NameParts[1], b \in NameParts[2], c \in NameParts[3],
        d \in NameParts[4], e \in NameParts[5]}
    \cup {NoneText, <<SP>>, <<SP, "g", ".", "h", SP>>,
          <<"[", "8", ":", ":", "8", "]", ":", "8443">>,
          <<"[", "8", ":", ":", "8", "]">>}

Flags ==
    {PyBool(TRUE), PyBool(FALSE), PyStr(<<"TRUE">>), PyStr(<<SP, "Yes", SP>>),
     PyStr(<<"false">>), PyNum(1), PyNum(0), PyNone, PyList(<<"x">>)}

Product(id, name, flag) ==
    [id |-> id, name |-> name, internet_accessible |-> flag]

\* the products that may follow the first one
MoreProducts ==
    {Product(2, <<"g", ".", "h">>, PyBool(TRUE)),
     Product(3, <<"WWW.", "G", ".", "h", "/", "g">>, PyStr(<<"TRUE">>)),
     Product(NoId, <<"h">>, PyBool(TRUE)),
     Product(4, <<"https://", "g", ":", "h">>, PyNum(1))}

InitTargets ==
    /\ tpc = "prepare"
    /\ \E n \in 0..MaxProducts :
         dojo_products \in
            IF n = 0 THEN {<<>>}
            ELSE {<<Product(1, name, flag)>> \o rest :
                    name \in Names, flag \in Flags,
                    rest \in [1..(n - 1) -> MoreProducts]}
    /\ built_targets = <<>> /\ tExit = NoExit
    /\ ArtifactIdle /\ UpsertIdle /\ SyncIdle /\ NmapIdle
    /\ SpeedIdle /\ EnumIdle

NextTargets == PrepareTargets \/ PrepareNoTargets \/ PrepareRaises

SpecTargets == InitTargets /\ [][NextTargets]_vars

\* ------------------------------------- scan speed of the targets of a group
\* (acunetix_set_group_scan_speed.py: main)

MaxTargets == 3

\* the target ids of a group of n targets, in the order the scanner lists them
TargetIdList(n) == [i \in 1..n |-> "t" \o ToString(i)]

\* cfg.get("scan_speed"): a speed, or None when the key is missing
Speeds == {"sequential", "fast", None}

\* status codes of PATCH /api/v1/targets/{id}/configuration
PatchStatuses == {200, 204, 202, 500}

\* the configuration is to be changed, had the current speed not been looked at
always_to_change(current, wanted) == TRUE

\* not (current == args.scan_speed)
to_change(current, wanted) == current # wanted

\* the loop stops at the first target that failed
stop_at_error(rest) == <<>>

\* the except clause is inside the loop: the next target is taken
after_error(rest) == rest

\* r.status_code in (200, 204)
PatchAccepted(status) == status \in {200, 204}

SpeedExit(ok, code) == spc' = "exit" /\ result_ok' = ok /\ ssExit' = code

\* step 1 with --group-id: no request
SpeedGroupById ==
    /\ spc = "group" /\ ~by_name
    /\ spc' = "targets"
    /\ UNCHANGED <<ss_dry_run, scan_speed, by_name, group_exists, configs0, configs,
                   target_ids, todo, changed, skipped, errors, patches,
                   result_ok, ssExit>>
    /\ UNCHANGED <<artVars, upVars, syncVars, nmVars, tgVars, enVars>>

\* step 1 with --group-name: the group is in the listing
SpeedGroupByName ==
    /\ spc = "group" /\ by_name /\ group_exists
    /\ spc' = "targets"
    /\ UNCHANGED <<ss_dry_run, scan_speed, by_name, group_exists, configs0, configs,
                   target_ids, todo, changed, skipped, errors, patches,
                   result_ok, ssExit>>
    /\ UNCHANGED <<artVars, upVars, syncVars, nmVars, tgVars, enVars>>

\* group_not_found: ok false, sys.exit(1)
SpeedGroupNotFound ==
    /\ spc = "group" /\ by_name /\ ~group_exists
    /\ SpeedExit(FALSE, 1)
    /\ UNCHANGED <<ss_dry_run, scan_speed, by_name, group_exists, configs0, configs,
                   target_ids, todo, changed, skipped, errors, patches>>
    /\ UNCHANGED <<artVars, upVars, syncVars, nmVars, tgVars, enVars>>

\* the listing of the groups raises: the outer except, sys.exit(1)
SpeedListGroupsFails ==
    /\ spc = "group" /\ by_name
    /\ SpeedExit(FALSE, 1)
    /\ UNCHANGED <<ss_dry_run, scan_speed, by_name, group_exists, configs0, configs,
                   target_ids, todo, changed, skipped, errors, patches>>
    /\ UNCHANGED <<artVars, upVars, syncVars, nmVars, tgVars, enVars>>

\* step 2: the target ids of the group
SpeedGetTargets ==
    /\ spc = "targets"
    /\ target_ids' = TargetIdList(Cardinality(DOMAIN configs))
    /\ todo' = target_ids'
    /\ IF target_ids' = <<>>
       THEN SpeedExit(TRUE, 0)
       ELSE spc' = "loop" /\ UNCHANGED <<result_ok, ssExit>>
    /\ UNCHANGED <<ss_dry_run, scan_speed, by_name, group_exists, configs0, configs,
                   changed, skipped, errors, patches>>
    /\ UNCHANGED <<artVars, upVars, syncVars, nmVars, tgVars, enVars>>

SpeedGetTargetsFails ==
    /\ spc = "targets"
    /\ SpeedExit(FALSE, 1)
    /\ UNCHANGED <<ss_dry_run, scan_speed, by_name, group_exists, configs0, configs,
                   target_ids, todo, changed, skipped, errors, patches>>
    /\ UNCHANGED <<artVars, upVars, syncVars, nmVars, tgVars, enVars>>

\* step 3, one target: reading its configuration raises
SpeedReadFails ==
    /\ spc = "loop" /\ todo # <<>>
    /\ errors' = Append(errors, [target_id |-> Head(todo), error |-> "read"])
    /\ todo' = after_error(Tail(todo))
    /\ UNCHANGED <<spc, ss_dry_run, scan_speed, by_name, group_exists, configs0, configs,
                   target_ids, changed, skipped, patches, result_ok, ssExit>>
    /\ UNCHANGED <<artVars, upVars, syncVars, nmVars, tgVars, enVars>>

\* the target has the requested speed already
SpeedSkip ==
    /\ spc = "loop" /\ todo # <<>>
    /\ ~to_change(configs[Head(todo)], scan_speed)
    /\ skipped' = Append(skipped, Head(todo))
    /\ todo' = Tail(todo)
    /\ UNCHANGED <<spc, ss_dry_run, scan_speed, by_name, group_exists, configs0, configs,
                   target_ids, changed, errors, patches, result_ok, ssExit>>
    /\ UNCHANGED <<artVars, upVars, syncVars, nmVars, tgVars, enVars>>

\* --dry-run: the target is listed as changed, nothing is sent
SpeedPlan ==
    /\ spc = "loop" /\ todo # <<>>
    /\ to_change(configs[Head(todo)], scan_speed)
    /\ ss_dry_run
    /\ changed' = Append(changed, Head(todo))
    /\ todo' = Tail(todo)
    /\ UNCHANGED <<spc, ss_dry_run, scan_speed, by_name, group_exists, configs0, configs,
                   target_ids, skipped, errors, patches, result_ok, ssExit>>
    /\ UNCHANGED <<artVars, upVars, syncVars, nmVars, tgVars, enVars>>

\* the PATCH is answered: 200 and 204 count as changed, any other status
\* is an error
SpeedPatch ==
    /\ spc = "loop" /\ todo # <<>>
    /\ to_change(configs[Head(todo)], scan_speed)
    /\ ~ss_dry_run
    /\ \E status \in PatchStatuses :
          /\ patches' = Append(patches, Head(todo))
          /\ configs' = IF status < 300
                        THEN [configs EXCEPT ![Head(todo)] = scan_speed]
                        ELSE configs
          /\ IF PatchAccepted(status)
             THEN /\ changed' = Append(changed, Head(todo))
                  /\ todo' = Tail(todo)
                  /\ UNCHANGED errors
             ELSE /\ errors' = Append(errors, [target_id |-> Head(todo),
                                               status |-> status])
                  /\ todo' = after_error(Tail(todo))
                  /\ UNCHANGED changed
    /\ UNCHANGED <<spc, ss_dry_run, scan_speed, by_name, group_exists, configs0,
                   target_ids, skipped, result_ok, ssExit>>
    /\ UNCHANGED <<artVars, upVars, syncVars, nmVars, tgVars, enVars>>

\* the PATCH raises; the scanner may have applied it all the same
SpeedPatchRaises ==
    /\ spc = "loop" /\ todo # <<>>
    /\ to_change(configs[Head(todo)], scan_speed)
    /\ ~ss_dry_run
    /\ patches' = Append(patches, Head(todo))
    /\ \/ configs' = [configs EXCEPT ![Head(todo)] = scan_speed]
       \/ UNCHANGED configs
    /\ errors' = Append(errors, [target_id |-> Head(todo), error |-> "write"])
    /\ todo' = after_error(Tail(todo))
    /\ UNCHANGED <<spc, ss_dry_run, scan_speed, by_name, group_exists, configs0,
                   target_ids, changed, skipped, result_ok, ssExit>>
    /\ UNCHANGED <<artVars, upVars, syncVars, nmVars, tgVars, enVars>>

\* the result is printed; sys.exit(1) if there are errors
SpeedReport ==
    /\ spc = "loop" /\ todo = <<>>
    /\ SpeedExit(Len(errors) = 0, IF errors # <<>> THEN 1 ELSE 0)
    /\ UNCHANGED <<ss_dry_run, scan_speed, by_name, group_exists, configs0, configs,
                   target_ids, todo, changed, skipped, errors, patches>>
    /\ UNCHANGED <<artVars, upVars, syncVars, nmVars, tgVars, enVars>>

InitSpeed ==
    /\ spc = "group"
    /\ ss_dry_run \in BOOLEAN
    /\ scan_speed \in {"sequential", "fast"}
    /\ by_name \in BOOLEAN
    /\ group_exists \in BOOLEAN
    /\ \E n \in 0..MaxTargets :
          configs \in [Range(TargetIdList(n)) -> Speeds]
    /\ configs0 = configs
    /\ target_ids = <<>> /\ todo = <<>>
    /\ changed = <<>> /\ skipped = <<>> /\ errors = <<>> /\ patches = <<>>
    /\ result_ok = FALSE /\ ssExit = NoExit
    /\ ArtifactIdle /\ UpsertIdle /\ SyncIdle /\ NmapIdle /\ TargetsIdle
    /\ EnumIdle

NextSpeed ==
    \/ SpeedGroupById \/ SpeedGroupByName
    \/ SpeedGroupNotFound \/ SpeedListGroupsFails
    \/ SpeedGetTargets \/ SpeedGetTargetsFails
    \/ SpeedReadFails \/ SpeedSkip \/ SpeedPlan
    \/ SpeedPatch \/ SpeedPatchRaises
    \/ SpeedReport

SpecSpeed == InitSpeed /\ [][NextSpeed]_vars

\* ------------------------------------------------- resolvability checks
\* (enum_subs_auto.py: resolve_host, and main with --resolve)

MaxHosts == 2

\* the candidate hostnames that passed the filter
HostPool(n) == {"h" \o ToString(i) \o ".g.h" : i \in 1..n}

\* socket.getdefaulttimeout() of a fresh process, and resolve_host's timeout
NoTimeout == "None"
ResolveTimeout == "2.0"

\* what socket.getaddrinfo does for a host: it raises, or answers addresses
Lookups ==
    {[raises |-> TRUE, ips |-> <<>>], [raises |-> FALSE, ips |-> <<>>],
     [raises |-> FALSE, ips |-> <<"1.1.1.1">>]}

\* a submitted check that has not run yet
Queued == [pc |-> "queued", old |-> NoTimeout, ips |-> <<>>]

\* main: one future per hostname, in a pool of 32 threads
EnumSubmit ==
    /\ epc = "start" /\ cleaned # {}
    /\ workers' = [h \in cleaned |-> Queued]
    /\ epc' = "pool"
    /\ UNCHANGED <<cleaned, dns, default_timeout, resolved_map>>
    /\ UNCHANGED <<artVars, upVars, syncVars, nmVars, tgVars, ssVars>>

\* no hostname is left to check
EnumNoChecks ==
    /\ epc = "start" /\ cleaned = {}
    /\ epc' = "done"
    /\ UNCHANGED <<cleaned, dns, default_timeout, workers, resolved_map>>
    /\ UNCHANGED <<artVars, upVars, syncVars, nmVars, tgVars, ssVars>>

\* resolve_host: old = socket.getdefaulttimeout()
WorkerGetTimeout ==
    \E h \in DOMAIN workers :
        /\ epc = "pool" /\ workers[h].pc = "queued"
        /\ workers' = [workers EXCEPT ![h].old = default_timeout, ![h].pc = "set"]
        /\ UNCHANGED <<epc, cleaned, dns, default_timeout, resolved_map>>
        /\ UNCHANGED <<artVars, upVars, syncVars, nmVars, tgVars, ssVars>>

\* socket.setdefaulttimeout(timeout)
WorkerSetTimeout ==
    \E h \in DOMAIN workers :
        /\ epc = "pool" /\ workers[h].pc = "set"
        /\ default_timeout' = ResolveTimeout
        /\ workers' = [workers EXCEPT ![h].pc = "lookup"]
        /\ UNCHANGED <<epc, cleaned, dns, resolved_map>>
        /\ UNCHANGED <<artVars, upVars, syncVars, nmVars, tgVars, ssVars>>

\* socket.getaddrinfo(host, None); an exception gives (False, [])
WorkerLookup ==
    \E h \in DOMAIN workers :
        /\ epc = "pool" /\ workers[h].pc = "lookup"
        /\ workers' = [workers EXCEPT
                         ![h].ips = IF dns[h].raises THEN <<>> ELSE dns[h].ips,
                         ![h].pc = "restore"]
        /\ UNCHANGED <<epc, cleaned, dns, default_timeout, resolved_map>>
        /\ UNCHANGED <<artVars, upVars, syncVars, nmVars, tgVars, ssVars>>

\* finally: socket.setdefaulttimeout(old)
WorkerRestore ==
    \E h \in DOMAIN workers :
        /\ epc = "pool" /\ workers[h].pc = "restore"
        /\ default_timeout' = workers[h].old
        /\ workers' = [workers EXCEPT ![h].pc = "finished"]
        /\ UNCHANGED <<epc, cleaned, dns, resolved_map>>
        /\ UNCHANGED <<artVars, upVars, syncVars, nmVars, tgVars, ssVars>>

\* main, as_completed: the answer of a finished check is taken
EnumCollect ==
    \E h \in DOMAIN workers :
        /\ epc = "pool" /\ workers[h].pc = "finished"
        /\ resolved_map' = IF workers[h].ips # <<>>
                           THEN (h :> workers[h].ips) @@ resolved_map
                           ELSE resolved_map
        /\ workers' = [workers EXCEPT ![h].pc = "collected"]
        /\ UNCHANGED <<epc, cleaned, dns, default_timeout>>
        /\ UNCHANGED <<artVars, upVars, syncVars, nmVars, tgVars, ssVars>>

\* the pool is left: cleaned = set(resolved_map.keys())
EnumDone ==
    /\ epc = "pool"
    /\ \A h \in DOMAIN workers : workers[h].pc = "collected"
    /\ cleaned' = DOMAIN resolved_map
    /\ epc' = "done"
    /\ UNCHANGED <<dns, default_timeout, workers, resolved_map>>
    /\ UNCHANGED <<artVars, upVars, syncVars, nmVars, tgVars, ssVars>>

InitEnum ==
    /\ epc = "start"
    /\ \E n \in 0..MaxHosts :
          /\ cleaned = HostPool(n)
          /\ dns \in [HostPool(n) -> Lookups]
    /\ default_timeout = NoTimeout
    /\ workers = <<>> /\ resolved_map = <<>>
    /\ ArtifactIdle /\ UpsertIdle /\ SyncIdle /\ NmapIdle /\ TargetsIdle
    /\ SpeedIdle

NextEnum ==
    \/ EnumSubmit \/ EnumNoChecks
    \/ WorkerGetTimeout \/ WorkerSetTimeout
    \/ WorkerLookup \/ WorkerRestore
    \/ EnumCollect
    \/ EnumDone

SpecEnum == InitEnum /\ [][NextEnum]_vars

\* ---------------------------------------------------------------- C7, C8

ValidId(t) == IsDict(t) /\ Strip(StrOrEmpty(t.target_id)) # <<>>

\* ids that entries of the list give for the normalized address a
IdsFor(entries, fields, a) ==
    {Strip(entries[i].target_id) : i \in
        {j \in 1..Len(entries) :
            /\ ValidId(entries[j])
            /\ \E k \in 1..Len(fields) :
                  normalize_target_address(entries[j][fields[k]]) = a}}

Reconciled == pc \in {"persist", "done", "failed"} /\ "reconcile" \in Range(trace)

\* C7 (as claimed): a submitted item whose normalized address the
\* bulk-create response provides is mapped to an id of the response, whatever
\* the full listing says for that address.
C7_ResponseTakesPrecedence ==
    Reconciled =>
        \A i \in 1..Len(prepared_targets) :
            LET a == normalize_target_address(prepared_targets[i].url)
                k == ToString(prepared_targets[i].product_id)
                ids == IdsFor(ResponseTargets(add_result), RespFields, a)
            IN  ids # {} => (k \in DOMAIN mapping /\ mapping[k] \in ids)

Keys(rows) == {ToString(rows[i].product_id) : i \in 1..Len(rows)}

\* lowercased, trailing slashes stripped, and nothing else
LowerNoSlash(value) == RStripSlash(Lower(StrOrEmpty(value)))

\* C8 (as claimed): the mapping has an entry for a submitted item exactly
\* when a bulk-create or listing entry whose id is not the empty string has
\* an address field that equals the item's target once both are lowercased
\* and stripped of trailing slashes.
C8_MappingIffMatchedLiterally ==
    Reconciled =>
        \A i \in 1..Len(prepared_targets) :
            LET a == LowerNoSlash(prepared_targets[i].url)
                k == ToString(prepared_targets[i].product_id)
                Hit(entries, fields) ==
                    \E j \in 1..Len(entries) :
                        /\ IsDict(entries[j])
                        /\ StrOrEmpty(entries[j].target_id) # <<>>
                        /\ \E f \in 1..Len(fields) :
                              LowerNoSlash(entries[j][fields[f]]) = a
            IN  k \in DOMAIN mapping <=>
                    \/ Hit(ResponseTargets(add_result), RespFields)
                    \/ Hit(all_targets, ListFields)

\* C8 (amended): the mapping has an entry for a submitted item exactly when
\* a bulk-create entry (fields address, addressValue, target) or a listing
\* entry (fields address, target) whose id is non-empty after trimming gives
\* the item's address, both trimmed, lowercased and stripped of trailing
\* slashes; the mapping has no other keys; reconciliation never fails, and a
\* run with unresolved items goes on to persist the mapping and ends with
\* exit code 0 unless the write of the file itself fails.
C8_MappingIffMatched ==
    /\ Reconciled =>
          /\ \A i \in 1..Len(prepared_targets) :
                LET a == normalize_target_address(prepared_targets[i].url)
                    k == ToString(prepared_targets[i].product_id)
                IN  k \in DOMAIN mapping <=>
                        \/ IdsFor(ResponseTargets(add_result), RespFields, a) # {}
                        \/ IdsFor(all_targets, ListFields, a) # {}
          /\ DOMAIN mapping \subseteq Keys(prepared_targets)
    /\ (pc = "failed" /\ "reconcile" \in Range(trace)) => failedAt = "persist"
    /\ (pc = "done" /\ ~dry_run) =>
          /\ exit_code = 0
          /\ mappingFile.kind = "file"
          /\ \A k \in DOMAIN mapping :
                /\ k \in DOMAIN mappingFile.items
                /\ mappingFile.items[k].target_id = mapping[k]

C8_Witness ==
    /\ pc = "done" /\ ~dry_run /\ exit_code = 0
    /\ "1" \in DOMAIN mapping /\ "2" \notin DOMAIN mapping
    /\ mappingFile.items["1"].target_id = mapping["1"]
    /\ all_targets # <<>> /\ ResponseTargets(add_result) = <<>>

\* ---------------------------------------------------------------- C9, C10

Order == <<"list_groups", "find_or_create", "submit", "list_all",
           "reconcile", "persist">>

\* C9: in a non-dry run the steps executed so far are an initial part of
\* list groups, find or create, submit, list all, reconcile, persist, and
\* the run stands right behind them; a raised error or a bulk-add status
\* other than 200/201 ends the run failed with exit code 1 at the step that
\* failed, with no step after it; done is reached only after all six steps,
\* with exit code 0; and the mapping file changes only in a run whose submit
\* was answered 200/201 and whose full listing succeeded.
C9_StepOrder ==
    ~dry_run =>
        /\ IsPrefix(trace, Order)
        /\ pc \in Range(Order) => pc = Order[Len(trace) + 1]
        /\ pc = "failed" =>
              /\ exit_code = 1
              /\ failedAt = "dojo" \/ failedAt = trace[Len(trace)]
        /\ failedAt # None => pc = "failed"
        /\ pc = "done" => trace = Order /\ exit_code = 0
        /\ (pc # "failed" /\ "submit" \in Range(trace)) =>
              add_result.status \in {200, 201}
        /\ (pc = "failed" /\ failedAt # "submit") =>
              add_result.status \in {0, 200, 201}
        /\ mappingFile # atStart =>
              /\ pc = "done"
              /\ add_result.status \in {200, 201}
              /\ {"submit", "list_all"} \subseteq Range(trace)

\* a run failed at submit on a status that is a success code but not 200/201
C9_Witness ==
    /\ ~dry_run /\ pc = "failed" /\ failedAt = "submit" /\ exit_code = 1
    /\ add_result.status = 204
    /\ trace = <<"list_groups", "find_or_create", "submit">>
    /\ mappingFile = atStart

\* C10: over any sequence of runs a group is created only when the scanner
\* holds no group of exactly that name, whatever page it is on; at most one
\* group of the name is ever created; and a run that gets past
\* find-or-create works with the first group of that name the scanner holds.
C10_GroupCreatedAtMostOnce ==
    /\ \A i \in 1..Len(created) : ~created[i].existed
    /\ Len(created) <= 1
    /\ (pc \in {"submit", "list_all", "reconcile", "persist", "done"} /\ ~dry_run) =>
          /\ HasGroup(remoteGroups, PT_NAME)
          /\ group_id = acu_find_group_by_name(remoteGroups, PT_NAME).group_id

\* the second run reuses, from beyond the first page, the group that the
\* failed first run had created
C10_Witness ==
    /\ runs = 2 /\ outcomes = <<"failed">>
    /\ Len(created) = 1 /\ created[1].run = 1
    /\ pc = "submit" /\ ~dry_run
    /\ group_id = NewGroup(PT_NAME, 1).group_id
    /\ Len(remoteGroups) > GroupPageLimit

\* --------------------------------------------------------------------- C6

IsWrite(req) == req.method # "GET"

\* C6: whatever the run does and however it ends, every request it sends
\* that is not a read is a product creation (POST /products/), the product
\* type record DefectDojo holds is the one it held at the start, description
\* and state-machine JSON block included, and the summary's
\* updated_description is false.
C6_ProductTypeUntouched ==
    /\ \A i \in 1..Len(reqs) :
          IsWrite(reqs[i]) => reqs[i].method = "POST" /\ reqs[i].path = "/products/"
    /\ dojo.pt = dojo0.pt
    /\ summary.updated_description = FALSE

\* a run that created a product for a product type whose description holds
\* a state block, and went on to write the artifact
C6_Witness ==
    /\ npc = "exit" /\ nmExit = 0
    /\ \E i \in 1..Len(reqs) : IsWrite(reqs[i])
    /\ Len(dojo.products) > Len(dojo0.products)
    /\ dojo0.pt.description = StateBlock
    /\ summary.targets_artifact_path

\* --------------------------------------------------------------- C11, C12

\* the entry the run writes for product key k
NewEntry(k) ==
    [target_id |-> mapping[k], product_type_id |-> PT_ID,
     acu_base_url |-> RStripSlash(ACU_BASE_URL)]

Persisted == pc = "done" /\ "persist" \in Range(trace)

\* C11: when the file the run found was a valid mapping, the file it leaves
\* holds every old entry whose key is not in the new mapping unchanged,
\* holds for every key of the new mapping the new target id, the product
\* type id of the run and the scanner endpoint (without trailing slash),
\* and holds nothing else.
C11_PersistPreservesOthers ==
    (Persisted /\ atStart.kind = "file") =>
        /\ mappingFile.kind = "file"
        /\ DOMAIN mappingFile.items = DOMAIN atStart.items \cup DOMAIN mapping
        /\ \A k \in DOMAIN atStart.items \ DOMAIN mapping :
              mappingFile.items[k] = atStart.items[k]
        /\ \A k \in DOMAIN mapping : mappingFile.items[k] = NewEntry(k)

\* an old entry of another product type kept, an old entry of this one
\* overwritten by what the run resolved
C11_Witness ==
    /\ Persisted /\ atStart = OldMappingFile
    /\ "1" \in DOMAIN mapping /\ mapping["1"] # atStart.items["1"].target_id
    /\ mappingFile.items["1"] = NewEntry("1")
    /\ "7" \notin DOMAIN mapping
    /\ mappingFile.items["7"] = atStart.items["7"]

\* C12 (as claimed): after the run persisted, the entries of the file that
\* carry the product type id of the run are exactly the items the run
\* resolved.
C12_GroupEntriesAreThisRun ==
    Persisted =>
        {k \in DOMAIN mappingFile.items :
            mappingFile.items[k].product_type_id = PT_ID} = DOMAIN mapping

\* ------------------------------------------------------------------- C13
\* the name is "https://WWW." + d + "/g" for a domain name d
IsUrlOfDomain(name, d) ==
    /\ name = <<"https://", "WWW.">> \o d \o <<"/", "g">>
    /\ d # <<>> /\ ~looks_like_ip(d)
    /\ \A i \in 1..Len(d) : d[i] \notin {":", "/", "@", SP, "[", "]"}

DomainOf(name) == SubSeq(name, 3, Len(name) - 2)

UrlNamed == {i \in 1..Len(dojo_products) :
                /\ dojo_products[i].name # NoneText
                /\ Len(dojo_products[i].name) > 4
                /\ IsUrlOfDomain(dojo_products[i].name,
                                 DomainOf(dojo_products[i].name))}

\* C13: for every domain name d, the name normalization of the sync script
\* and the host extraction of the nmap script turn "https://WWW." + d +
\* "/path" into d in lower case, without scheme, path and "www."
C13_UrlNameNormalizesToDomain ==
    tpc = "acunetix" =>
        \A i \in UrlNamed :
            LET name == dojo_products[i].name
            IN  /\ normalize_product_name(name) = Lower(DomainOf(name))
                /\ strip_www(extract_host_from_product_name(name))
                       = Lower(DomainOf(name))

\* ------------------------------------------------------------------- C14
\* the products the loop turns into targets, and the target of product i
Emitting == {i \in 1..Len(dojo_products) : Considered(dojo_products[i])}

TargetsOf(i) ==
    {j \in 1..Len(built_targets) :
        built_targets[j].product_id = dojo_products[i].id}

\* the name is ip:p without a scheme, ip a valid IPv4 address, p digits
IsIpPort(name) ==
    /\ name # NoneText /\ Count(name, ":") = 1
    /\ IsIPv4(BeforeFirst(name, ":"))
    /\ IsDigits(AfterFirst(name, ":"))

IpPortTarget(name) ==
    <<IF IntOf(AfterFirst(name, ":")) \in {8443, 9443}
      THEN "https://" ELSE "http://">> \o name

\* C14: a product named ip:p, ip a valid IPv4 address and p a number, gets
\* the target https://ip:p when p is 8443 or 9443 and http://ip:p for every
\* other p; the port stays in the target
C14_IpPortScheme ==
    tpc = "acunetix" =>
        \A i \in Emitting :
            LET name == dojo_products[i].name
            IN  IsIpPort(name) =>
                  /\ product_name_to_target_url(normalize_product_name(name))
                        = IpPortTarget(name)
                  /\ \E j \in 1..Len(built_targets) :
                        built_targets[j].url = IpPortTarget(name)

C14_Witness ==
    /\ tpc = "acunetix"
    /\ \E i \in Emitting :
          /\ dojo_products[i].name = Host8 \o <<":", "9443">>
          /\ \E j \in TargetsOf(i) :
                built_targets[j].url = <<"https://">> \o Host8 \o <<":", "9443">>

\* ------------------------------------------------------------------- C15
\* the name without a leading "www." in either case
WithoutWww(name) ==
    IF name # <<>> /\ name[1] \in {"www.", "WWW."} THEN Tail(name) ELSE name

\* the name has no scheme and is a domain, with "www." or without, with a
\* numeric port or without
IsDomainName(name) ==
    /\ name # NoneText /\ name # <<>>
    /\ \A k \in 1..Len(name) :
          name[k] \notin {"/", "@", SP, "[", "]"} \cup NameSchemes
                            \cup {"HTTP://", "HTTPS://"}
    /\ Count(name, ":") <= 1
    /\ Count(name, ":") = 1 => IsDigits(AfterFirst(name, ":"))
    /\ BeforeFirst(WithoutWww(name), ":") # <<>>
    /\ ~looks_like_ip(BeforeFirst(WithoutWww(name), ":"))
    /\ ~looks_like_ip(BeforeFirst(name, ":"))

DomainTarget(name) ==
    <<"https://">> \o Lower(BeforeFirst(WithoutWww(name), ":"))

\* C15: a product whose name has no scheme and is a domain, with a numeric
\* port or without, gets the target "https://" + host, the host without a
\* leading "www." and the target without a port
C15_DomainTargetHasNoPort ==
    tpc = "acunetix" =>
        \A i \in Emitting :
            LET name == dojo_products[i].name
            IN  IsDomainName(name) =>
                  /\ product_name_to_target_url(normalize_product_name(name))
                        = DomainTarget(name)
                  /\ \E j \in 1..Len(built_targets) :
                        built_targets[j].url = DomainTarget(name)

\* the same for the names without a port, where it holds
DomainTargetWithoutPort ==
    tpc = "acunetix" =>
        \A i \in Emitting :
            LET name == dojo_products[i].name
            IN  (IsDomainName(name) /\ Count(name, ":") = 0) =>
                  product_name_to_target_url(normalize_product_name(name))
                      = DomainTarget(name)

\* ------------------------------------------------------------------- C16
\* the normalization of product i gives no usable name or no usable target
Unusable(i) ==
    \/ normalize_product_name(dojo_products[i].name) = <<>>
    \/ product_name_to_target_url(
           normalize_product_name(dojo_products[i].name)) = <<>>

\* C16: the normalization of a name never raises, whatever the name (empty,
\* blank, a URL without host, a URL whose port is no number or is out of
\* range): it returns the empty string for an unusable name, and the target
\* list is built to its end with no target for such a product
C16_NormalizationNeverRaises ==
    tpc # "prepare" =>
        /\ \A i \in Emitting :
              normalize_product_name(dojo_products[i].name) # ValueError
        /\ tpc # "failed"
        /\ \A i \in 1..Len(dojo_products) : Unusable(i) => TargetsOf(i) = {}

\* the part that holds: a product without a usable name gets no target
\* when no name raises
UnusableGivesNoTarget ==
    tpc \in {"acunetix", "returned"} =>
        \A i \in 1..Len(dojo_products) : Unusable(i) => TargetsOf(i) = {}

\* ------------------------------------------------------------------- C17
\* the documents the run has parsed: one per product that has one
ParsedDocs ==
    {xmls[pid] : pid \in {q \in DOMAIN xmls : xmls[q].kind = "xml"}}

\* the port record is open, not excluded and looks like a web service
WebLike(p) ==
    /\ p.state = "open"
    /\ p.portid \notin {80, 443}
    /\ \/ HasHttp(p.name) \/ HasSsl(p.tunnel)
       \/ p.portid \in {8000, 8008, 8080, 8443, 8888, 9000, 9443}

Protocol(p) ==
    IF HasSsl(p.tunnel) \/ p.portid \in {8443, 9443} THEN "https" ELSE "http"

HasAddress(host) == \E a \in 1..Len(host.addrs) : host.addrs[a] # <<>>

FirstAddress(host) ==
    host.addrs[Min({a \in 1..Len(host.addrs) : host.addrs[a] # <<>>})]

\* the web-like port records of a document as <<host, port>> positions,
\* of every host and of the hosts that have an address
WebRecords(doc) ==
    {<<i, j>> \in (1..Len(doc.hosts)) \X (1..3) :
        /\ j <= Len(doc.hosts[i].ports)
        /\ WebLike(doc.hosts[i].ports[j])}

AddressedWebRecords(doc) ==
    {r \in WebRecords(doc) : HasAddress(doc.hosts[r[1]])}

Before(q, r) == q[1] < r[1] \/ (q[1] = r[1] /\ q[2] < r[2])

\* the k-th record of R in document order
Kth(R, k) == CHOOSE r \in R : Cardinality({q \in R : Before(q, r)}) = k - 1

\* the list is one finding per record of R, in document order
FindingsAre(doc, R) ==
    LET found == parse_nmap_xml_for_ips(doc)
    IN  /\ Len(found) = Cardinality(R)
        /\ \A k \in 1..Len(found) :
              LET host == doc.hosts[Kth(R, k)[1]]
                  port == host.ports[Kth(R, k)[2]]
              IN  found[k] = <<FirstAddress(host), port.portid, Protocol(port)>>

\* C17 as stated: parse_nmap_xml_for_ips returns, in document order, one
\* finding for each port record that is open, not excluded and web-like,
\* with protocol https iff the tunnel has ssl or the port is 8443 or 9443,
\* and nothing else
C17_FindingPerWebRecord ==
    npc = "create" => \A doc \in ParsedDocs : FindingsAre(doc, WebRecords(doc))

\* C17, amended: the same for the port records of the hosts that have an
\* address; the other hosts yield nothing
C17_FindingPerAddressedWebRecord ==
    npc = "create" =>
        /\ \A doc \in ParsedDocs : FindingsAre(doc, AddressedWebRecords(doc))
        /\ DOMAIN loc.candidates =
              UNION {{FirstAddress(doc.hosts[r[1]])
                        \o <<":", ToString(doc.hosts[r[1]].ports[r[2]].portid)>> :
                            r \in AddressedWebRecords(doc)} : doc \in ParsedDocs}

C17_Witness ==
    /\ npc = "create"
    /\ \E doc \in ParsedDocs :
          /\ Len(parse_nmap_xml_for_ips(doc)) = 2
          /\ parse_nmap_xml_for_ips(doc)[1] = <<Host8, 8080, "https">>
          /\ parse_nmap_xml_for_ips(doc)[2] = <<<<"f", ":", ":", "8">>, 8443, "https">>
          /\ WebRecords(doc) # AddressedWebRecords(doc)
          /\ \E i \in 1..Len(doc.hosts) : \E j \in 1..Len(doc.hosts[i].ports) :
                doc.hosts[i].ports[j].state = "closed"
    /\ <<"f", ":", ":", "8", ":", "8443">> \in DOMAIN loc.candidates

\* ------------------------------------------------------------------- C18
\* the run has written its lines
LinesBuilt == npc = "exit" /\ nmExit = 0

\* "<scheme><host>, <label>": the host of a line and what follows it
HostOf(line) == SubSeq(line, 2, IndexOf(line, ",") - 1)
LabelOf(line) == SubSeq(line, IndexOf(line, ",") + 2, Len(line))

\* the host is <IP address>:<port>
IsIpPortLine(line) ==
    LET host == HostOf(line)
        port == AfterLast(host, ":")
    IN  /\ IndexOf(host, ":") # 0
        /\ IsDigits(port)
        /\ looks_like_ip(SubSeq(host, 1, Len(host) - Len(port) - 1))

\* the product type's name yields a host that is no IP address
HasOwnHost ==
    /\ extract_host_from_product_name(loc.pt_name) # <<>>
    /\ ~looks_like_ip(extract_host_from_product_name(loc.pt_name))

OwnHost == strip_www(extract_host_from_product_name(loc.pt_name))

\* 1: the own line, 2: a domain line, 3: an IP:port line
Rank(i) ==
    IF IsIpPortLine(lines[i]) THEN 3
    ELSE IF i = 1 /\ HasOwnHost THEN 1 ELSE 2

\* the canonical hosts of the products that are marked true and named by a
\* domain, and of every product named by a domain
DomainHosts(flags) ==
    {strip_www(extract_host_from_product_name(loc.products[i].name)) :
        i \in {j \in 1..Len(loc.products) :
                 /\ loc.products[j].internet_accessible \in flags
                 /\ extract_host_from_product_name(loc.products[j].name) # <<>>
                 /\ ~looks_like_ip(
                        extract_host_from_product_name(loc.products[j].name))}}

AnyFlag == {loc.products[j].internet_accessible : j \in 1..Len(loc.products)}

\* C18: the lines are the product type's own line (there iff its name
\* yields a host that is no IP address), then the domain lines in the order
\* of their hosts, then the IP:port lines in the order of the whole line;
\* every domain line is "https://<canonical host>, <label>"
C18_LinesOrdered ==
    LinesBuilt =>
        /\ HasOwnHost =>
              /\ lines # <<>>
              /\ lines[1] = <<"https://">> \o OwnHost \o <<",", SP>> \o loc.pt_name
        /\ \A i, j \in 1..Len(lines) :
              i < j =>
                /\ Rank(i) <= Rank(j)
                /\ (Rank(i) = 2 /\ Rank(j) = 2) =>
                      StrLess(HostOf(lines[i]), HostOf(lines[j]))
                /\ (Rank(i) = 3 /\ Rank(j) = 3) => StrLess(lines[i], lines[j])
        /\ \A i \in 1..Len(lines) :
              /\ LabelOf(lines[i]) = loc.pt_name
              /\ Rank(i) < 3 =>
                    /\ lines[i][1] = "https://"
                    /\ HostOf(lines[i]) = Lower(HostOf(lines[i]))
                    /\ HostOf(lines[i])[1] # "www."
        /\ DomainHosts({PyBool(TRUE)}) \subseteq
              {HostOf(lines[i]) : i \in {k \in 1..Len(lines) : Rank(k) < 3}}
        /\ \A i \in 1..Len(lines) :
              /\ Rank(i) = 2 => HostOf(lines[i]) \in DomainHosts(AnyFlag)
              /\ Rank(i) = 3 =>
                    /\ HostOf(lines[i]) \in DOMAIN loc.candidates
                    /\ lines[i][1]
                          = SchemeToken(loc.candidates[HostOf(lines[i])])
        /\ \A name \in DOMAIN loc.candidates :
              \E i \in 1..Len(lines) : Rank(i) = 3 /\ HostOf(lines[i]) = name

C18_Witness ==
    /\ LinesBuilt
    /\ HasOwnHost
    /\ Len(lines) = 4
    /\ HostOf(lines[1]) = <<"g", ".", "h">>
    /\ HostOf(lines[2]) = <<"h", ".", "g">>
    /\ lines[3] = <<"https://">> \o Host8 \o <<":", "8080", ",", SP>> \o loc.pt_name
    /\ lines[4] = <<"https://", "f", ":", ":", "8", ":", "8443", ",", SP>>
                      \o loc.pt_name
    /\ \A j \in 1..Len(loc.products) :
          IsPy(loc.products[j].internet_accessible, "bool")

\* ------------------------------------------------------------------- C19
\* the target of a line: what stands before ", <label>"
TargetOf(line) == SubSeq(line, 1, IndexOf(line, ",") - 1)

\* C19: the written lines hold no line twice and no target twice, two
\* targets being the same when they are equal in lower case and without
\* trailing slashes
C19_NoDuplicateTargets ==
    LinesBuilt =>
        \A i, j \in 1..Len(lines) :
            i < j =>
              /\ lines[i] # lines[j]
              /\ RStripSlash(Lower(TargetOf(lines[i])))
                    # RStripSlash(Lower(TargetOf(lines[j])))

\* the part that holds: no line is there twice, and no target text is there
\* twice as it is written
NoLineTwice ==
    LinesBuilt =>
        /\ \A i, j \in 1..Len(lines) : i < j => lines[i] # lines[j]
        /\ \A i, j \in 1..Len(lines) :
              i < j => TargetOf(lines[i]) # TargetOf(lines[j])

\* ------------------------------------------------------------------- C20
\* the hosts of the domain lines that follow the product type's own line
DomainLineHosts == {HostOf(lines[i]) : i \in {k \in 1..Len(lines) : Rank(k) = 2}}

\* C20: the target lines built from the nmap results take a product's
\* internet_accessible for true exactly as normalize_bool does: the domain
\* lines are those of the products whose flag normalize_bool takes for true
\* (the host of the product type's own line is written once, as that line)
C20_FlagCoercedByNormalizeBool ==
    LinesBuilt =>
        DomainLineHosts
            = DomainHosts({f \in AnyFlag : normalize_bool(f)})
                  \ (IF HasOwnHost THEN {OwnHost} ELSE {})

\* what the code does instead: the domain lines are those of the products
\* whose flag is true as the condition of an "if"
DomainLinesOfTruthyFlags ==
    LinesBuilt =>
        DomainLineHosts
            = DomainHosts({f \in AnyFlag : Truthy(f)})
                  \ (IF HasOwnHost THEN {OwnHost} ELSE {})

\* ------------------------------------------------------------------- C23
\* the names of the creation requests sent so far, in their order
RECURSIVE CreationNames(_)
CreationNames(rs) ==
    IF rs = <<>> THEN <<>>
    ELSE IF Head(rs).method = "POST" /\ Head(rs).path = "/products/"
         THEN <<Head(rs).payload.name>> \o CreationNames(Tail(rs))
         ELSE CreationNames(Tail(rs))

\* the names of the products the product type had when the run began
ListedNames == {dojo0.products[i].name : i \in 1..Len(dojo0.products)}

\* the ip:port names found in the scan documents that no listed product has
MissingNames == DOMAIN loc.candidates \ ListedNames

\* <IPv4 or IPv6 address>:<port>
IsAddressPort(name) ==
    LET port == AfterLast(name, ":")
    IN  /\ IndexOf(name, ":") # 0
        /\ IsDigits(port)
        /\ looks_like_ip(SubSeq(name, 1, Len(name) - Len(port) - 1))

\* every creation request is for an ip:port name that was found and that no
\* listed product has, and no name is asked for twice
CreationOnlyOfMissingNames ==
    LET names == CreationNames(reqs)
    IN  /\ \A i \in 1..Len(names) :
              names[i] \in MissingNames /\ IsAddressPort(names[i])
        /\ \A i, j \in 1..Len(names) : i < j => names[i] # names[j]

\* C23: a creation request is sent for an ip:port name only if no listed
\* product has that name and none was created before in the run, at most one
\* per name; and a failed creation does not stop the others: when the run
\* has ended, a request was sent for every missing name
C23_CreationOncePerMissingName ==
    /\ CreationOnlyOfMissingNames
    /\ (npc = "exit" /\ ~DRY_RUN /\ CreationNames(reqs) # <<>>) =>
          MissingNames = Range(CreationNames(reqs))

\* the part that holds: the requests are for missing names, one per name;
\* a creation the server refuses with an HTTP error does not stop the
\* others, so a run that ends with exit code 0 has asked for every missing
\* name
CreationOfEveryMissingName ==
    /\ CreationOnlyOfMissingNames
    /\ (npc = "exit" /\ nmExit = 0 /\ ~DRY_RUN) =>
          MissingNames = Range(CreationNames(reqs))

\* a refused creation was followed by another one in a run that ended well
RefusedCreationThenAnother ==
    /\ npc = "exit" /\ nmExit = 0
    /\ Len(CreationNames(reqs)) = 2
    /\ Len(dojo.products) = Len(dojo0.products) + 1

\* ------------------------------------------------------------------- C24
\* the findings of the scan documents of the first n listed products, in the
\* order of the products and within a document in its order
RECURSIVE FindingsUpTo(_)
FindingsUpTo(n) ==
    IF n = 0 THEN <<>>
    ELSE FindingsUpTo(n - 1) \o
            (IF loc.products[n].id \in DOMAIN xmls
             THEN parse_nmap_xml_for_ips(xmls[loc.products[n].id]) ELSE <<>>)

AllFindings == FindingsUpTo(Len(loc.products))

SamePair(f, g) == f[1] = g[1] /\ f[2] = g[2]

\* the last finding for the pair of the k-th finding
LastFor(k) ==
    LET found == AllFindings
    IN  found[Max({m \in 1..Len(found) : SamePair(found[m], found[k])})]

\* the places of the lines for the pair of a finding
LinesFor(f) ==
    {i \in 1..Len(lines) :
        Rank(i) = 3 /\ HostOf(lines[i]) = f[1] \o <<":", ToString(f[2])>>}

\* C24: each (ip, port) pair found in a scan document has exactly one
\* IP:port line, with the protocol of the last finding for the pair, the
\* products taken in the order of the listing and the findings in the order
\* of their document
C24_LastFindingWins ==
    LinesBuilt =>
        \A k \in 1..Len(AllFindings) :
            /\ Cardinality(LinesFor(AllFindings[k])) = 1
            /\ \A i \in LinesFor(AllFindings[k]) :
                  lines[i][1] = SchemeToken(LastFor(k)[3])

\* a pair was found as https and later as http, and its line has http
C24_Witness ==
    /\ LinesBuilt
    /\ \E k, m \in 1..Len(AllFindings) :
          /\ k < m
          /\ SamePair(AllFindings[k], AllFindings[m])
          /\ AllFindings[k][3] = "https" /\ AllFindings[m][3] = "http"
          /\ LastFor(k) = AllFindings[m]
          /\ \E i \in LinesFor(AllFindings[k]) : lines[i][1] = "http://"

\* ------------------------------------------------------------------- C25
\* the entries of a mapping file: item id -> remote id
RemoteIdsIn(file) ==
    IF file.kind = "file"
    THEN [k \in DOMAIN file.items |-> file.items[k].target_id]
    ELSE EmptyDict

\* the run has sent no create-group and no add-targets request
NothingSentToScanner ==
    /\ "submit" \notin Range(trace)
    /\ \A i \in 1..Len(created) : created[i].run # runs

\* C25: a dry run sends no create-group and no add-targets request, and the
\* mapping file holds the same item ids with the same remote ids as when
\* the run began
C25_DryRunMakesNoDurableChange ==
    dry_run =>
        /\ NothingSentToScanner
        /\ RemoteIdsIn(mappingFile) = RemoteIdsIn(atStart)

\* the part that holds: a dry run sends nothing to the scanner, and in the
\* mapping file it touches the entries of its own items only
DryRunSendsNothing ==
    dry_run =>
        /\ NothingSentToScanner
        /\ \A k \in DOMAIN RemoteIdsIn(atStart) :
              /\ k \in DOMAIN RemoteIdsIn(mappingFile)
              /\ k \notin DOMAIN mapping =>
                    RemoteIdsIn(mappingFile)[k] = RemoteIdsIn(atStart)[k]

\* ------------------------------------------------------------------- C21
\* the loop over the targets of the group has finished and the result is
\* printed
LoopFinished == spc = "exit" /\ target_ids # <<>>

ErrorIds == [i \in 1..Len(errors) |-> errors[i].target_id]

\* the number of targets the loop has dealt with
Processed == Len(changed) + Len(skipped) + Len(errors)

\* C21: a target that fails (its configuration cannot be read or written,
\* or the PATCH is answered with a status other than 200/204) is put on the
\* error list and the loop goes on with the next target, through all
\* targets of the group; the run reports ok and exits with 0 exactly when
\* the error list is empty after the loop
C21_FailuresCollected ==
    /\ spc = "loop" => todo = SubSeq(target_ids, Processed + 1, Len(target_ids))
    /\ \A i \in 1..Len(errors) :
          "status" \in DOMAIN errors[i] =>
              /\ errors[i].status \notin {200, 204}
              /\ errors[i].target_id \in Range(patches)
    /\ \A i \in 1..Len(patches) :
          patches[i] \in Range(changed) \cup Range(ErrorIds)
    /\ LoopFinished =>
          /\ Processed = Len(target_ids)
          /\ result_ok <=> errors = <<>>
          /\ ssExit = 0 <=> errors = <<>>
          /\ ssExit \in {0, 1}

\* the first target failed on its PATCH status, the second could not be
\* read, the third was changed; the run reports ok false and exits with 1
C21_Witness ==
    /\ LoopFinished
    /\ Len(target_ids) = 3
    /\ Len(errors) = 2
    /\ errors[1] = [target_id |-> "t1", status |-> 500]
    /\ errors[2] = [target_id |-> "t2", error |-> "read"]
    /\ changed = <<"t3">>
    /\ ~result_ok /\ ssExit = 1

\* ------------------------------------------------------------------- C26
\* how often a target id stands in a list
Times(tid, list) == Cardinality({i \in 1..Len(list) : list[i] = tid})

\* the configuration of the target was read: no error entry says otherwise
WasRead(tid) ==
    \A i \in 1..Len(errors) :
        errors[i].target_id = tid =>
            ("error" \notin DOMAIN errors[i] \/ errors[i].error # "read")

ChecksOver == epc = "done" /\ DOMAIN workers # {}

\* each hostname has at most one entry, and it is the answer of its own
\* lookup
ResultsAreOwn ==
    \A h \in DOMAIN resolved_map :
        /\ h \in DOMAIN workers
        /\ workers[h].pc = "collected"
        /\ ~dns[h].raises
        /\ resolved_map[h] = dns[h].ips
        /\ resolved_map[h] # <<>>

\* C22: under every interleaving of the checks each hostname gets at most
\* one entry, the answer of its own check, and when all checks are over the
\* default socket timeout of the process is what it was before them
C22_ChecksShareNothing ==
    /\ ResultsAreOwn
    /\ ChecksOver =>
          /\ default_timeout = NoTimeout
          /\ DOMAIN resolved_map =
                {h \in DOMAIN workers : ~dns[h].raises /\ dns[h].ips # <<>>}

\* the part that holds: the entries are the checks' own answers under every
\* interleaving, and a check alone sets the timeout back
ResultsOwnAndLoneCheckRestores ==
    /\ ResultsAreOwn
    /\ ChecksOver =>
          /\ Cardinality(DOMAIN workers) = 1 => default_timeout = NoTimeout
          /\ DOMAIN resolved_map =
                {h \in DOMAIN workers : ~dns[h].raises /\ dns[h].ips # <<>>}

\* ------------------------------------------------------------------- C27
\* the name denotes a domain: the nmap script gets a host from it that is no
\* IP address, with a dot between its labels
DenotesDomain(name) ==
    /\ name # NoneText
    /\ Count(extract_host_from_product_name(name), ".") > 0
    /\ ~looks_like_ip(extract_host_from_product_name(name))

\* the target of the line the nmap script writes for the product
NmapLineTarget(name) ==
    <<"https://">> \o strip_www(extract_host_from_product_name(name))

\* the target URL the sync script submits for the product
SyncTarget(name) == product_name_to_target_url(normalize_product_name(name))

HasScheme(name) == Lower(name)[1] \in NameSchemes

\* C27: for every internet-accessible product whose name denotes a domain,
\* the URL the sync script submits equals the target of the line the nmap
\* script writes
C27_DerivationsAgree ==
    tpc = "acunetix" =>
        \A i \in Emitting :
            DenotesDomain(dojo_products[i].name) =>
                SyncTarget(dojo_products[i].name)
                    = NmapLineTarget(dojo_products[i].name)

\* the part that holds: the two agree on the names without a scheme and
\* without a port
DerivationsAgreeOnBareNames ==
    tpc = "acunetix" =>
        \A i \in Emitting :
            LET name == dojo_products[i].name
            IN  (DenotesDomain(name) /\ ~HasScheme(name) /\ Count(name, ":") = 0)
                    => SyncTarget(name) = NmapLineTarget(name)

====
